---- MODULE Spec2Model ----
(***************************************************************************)
(* A model of the carto-vl rendering core: the styling-expression graph,   *)
(* the Style object and its compiled programs, the Renderer's frame loop,  *)
(* the Dataframe GPU-resource lifecycle and the SQL_API tile provider with *)
(* its LRU cache of tile promises.                                         *)
(*                                                                         *)
(* JavaScript is single threaded: a task (an API call, an XHR load event,  *)
(* a frame tick) runs to completion and the promise reactions it queued    *)
(* (the microtask queue) are drained before the next task starts.          *)
(***************************************************************************)
EXTENDS Integers, Sequences, FiniteSets, TLC

\* ------------------------------------------------------------------------
\* Bounds of the model
\* ------------------------------------------------------------------------
MaxFetches == 2
MaxCalls == 3
MaxNodes == 24
MaxOps == 1
MaxTime == 2
MaxRAF == 2
MaxTiles == 2
CacheMax == 1
MaxFreeCalls == 2
MaxDraws == 3
MaxStep == 2
MaxDuration == 3
MaxPairs == 2
MaxParses == 2
MaxCtors == 2
MaxTypes == 2
MaxLeaves == 3
MaxCompiles == 2
MaxRefs == 5
MaxZoom == 3
MaxValue == 2
MaxSample == 3
MaxBuckets == 4
MaxStd == 2
MaxSets == 3
MaxSetTime == 2
MaxSettleTime == 5

\* numeric literals are 0..MaxOperand
MaxOperand == 7

\* cardinalities and bucket counts lie up to MaxExcess around 0, the byte
\* range and the texture width
MaxExcess == 2

\* textures one Ramp creates, and the category counts of its input
MaxTextures == 3
MaxRampCategories == 3

\* templates of a TileClient, tiles of one request, and the range
\* -MaxCoord..MaxCoord of x and y
MaxTemplates == 3
MaxRequest == 2
MaxCoord == 1

\* ------------------------------------------------------------------------
\* Identifiers and inputs
\* ------------------------------------------------------------------------
Keys == {1, 2}
PromiseIds == 1..(MaxFetches + Cardinality(Keys))
DfIds == PromiseIds
BatchIds == 1..MaxCalls
QueryIds == 1..MaxCalls
\* every query makes one Style
StyleIds == QueryIds
Channels == {"width", "color", "strokeColor", "strokeWidth"}
Durations == {1}

VARIABLES
    nodes,        \* heap of expression nodes, in allocation order: id -> fields
    nextNode,     \* next unused node id
    styles,       \* Style objects: style id -> [schema, root, shader]
    nextStyle,    \* next unused style id
    nextProgram,  \* next GPU program id (gl.createProgram)
    dfs,          \* Dataframe objects
    tiles,        \* Renderer.tiles, the live list
    pendingRAF,   \* callbacks registered with requestAnimationFrame
    lastFrame,    \* Renderer.lastFrame (-1: undefined)
    now,          \* Date.now()
    camera,       \* Renderer._center / _zoom
    ops,          \* number of style mutations issued so far
    cache,        \* LRU list of [key, promise, stale], head is the youngest
    promises,     \* tile promises created by requestDataframe
    nextPromise,  \* next unused promise id
    micro,        \* microtask queue (promise reactions ready to run)
    oldtiles,     \* module variable oldtiles of the provider
    batches,      \* closures of getData: completedTiles, needToComplete
    nextBatch,    \* next unused batch id
    provStyle,    \* SQL_API.style (0: null)
    schemaReqs,   \* getSchema requests: the promises stored in SQL_API.schema
    curSchemaReq, \* the request SQL_API.schema currently refers to (0: none)
    binary_ops,   \* jsep's module-level table: operator -> precedence (0: absent)
    doc,          \* the style document handed to the parser
    gl,           \* what the canvas and the GPU offer, and the state of `new Renderer`
    ramp,         \* a Ramp of viz/expressions/ramp.js and the textures it created
    lastOp        \* the last operation and what it observed

vars == <<nodes, nextNode, styles, nextStyle, nextProgram, dfs, tiles,
          pendingRAF, lastFrame, now, camera,
          ops, cache, promises, nextPromise, micro, oldtiles,
          batches, nextBatch, provStyle, schemaReqs, curSchemaReq,
          binary_ops, doc, gl, ramp, lastOp>>

\* The whole program state as one record, so that a handler can be written
\* as a composition of the functions it calls.
World ==
    [nodes |-> nodes, nextNode |-> nextNode, styles |-> styles,
     nextStyle |-> nextStyle, nextProgram |-> nextProgram, dfs |-> dfs,
     tiles |-> tiles, pendingRAF |-> pendingRAF, lastFrame |-> lastFrame,
     now |-> now, camera |-> camera, ops |-> ops, cache |-> cache,
     promises |-> promises, nextPromise |-> nextPromise, micro |-> micro,
     oldtiles |-> oldtiles, batches |-> batches, nextBatch |-> nextBatch,
     provStyle |-> provStyle, schemaReqs |-> schemaReqs,
     curSchemaReq |-> curSchemaReq, binary_ops |-> binary_ops, doc |-> doc,
     gl |-> gl, ramp |-> ramp, lastOp |-> lastOp]

Commit(w) ==
    /\ nodes' = w.nodes
    /\ nextNode' = w.nextNode
    /\ styles' = w.styles
    /\ nextStyle' = w.nextStyle
    /\ nextProgram' = w.nextProgram
    /\ dfs' = w.dfs
    /\ tiles' = w.tiles
    /\ pendingRAF' = w.pendingRAF
    /\ lastFrame' = w.lastFrame
    /\ now' = w.now
    /\ camera' = w.camera
    /\ ops' = w.ops
    /\ cache' = w.cache
    /\ promises' = w.promises
    /\ nextPromise' = w.nextPromise
    /\ micro' = w.micro
    /\ oldtiles' = w.oldtiles
    /\ batches' = w.batches
    /\ nextBatch' = w.nextBatch
    /\ provStyle' = w.provStyle
    /\ schemaReqs' = w.schemaReqs
    /\ curSchemaReq' = w.curSchemaReq
    /\ binary_ops' = w.binary_ops
    /\ doc' = w.doc
    /\ gl' = w.gl
    /\ ramp' = w.ramp
    /\ lastOp' = w.lastOp

\* ------------------------------------------------------------------------
\* Schema
\* ------------------------------------------------------------------------
\* A schema is a set of <<property name, type object>> pairs; type objects are
\* compared by identity, so two getSchema results never share one.
UndefinedSchema == [defined |-> FALSE, props |-> {}]
\* getSchema builds new type objects on every call: the schema of query q
SchemaOf(q) == [defined |-> TRUE, props |-> {<<"amount", q>>}]
SchemaPool == {SchemaOf(1), SchemaOf(2)}

SchemaKeys(S) == {p[1] : p \in S.props}

SchemaLookup(S, name) ==
    IF name \in SchemaKeys(S)
    THEN (CHOOSE p \in S.props : p[1] = name)[2]
    ELSE 0

\* Every schema over the property names below with type objects 1..MaxTypes
\* (the empty Schema included), and the undefined schema
PropertyNames == {"amount", "kind", "name"}

AllSchemas ==
    {UndefinedSchema} \cup
    {[defined |-> TRUE, props |-> {<<n, f[n]>> : n \in {m \in PropertyNames : f[m] # 0}}] :
        f \in [PropertyNames -> 0..MaxTypes]}

\* "ok", "mismatch" (the Error thrown at line 1111) or "typeerror" (reduce of
\* an empty array with no initial value).
checkSchemaMatch(schemaA, schemaB) ==
    IF schemaA.defined /\ schemaB.defined
    THEN IF SchemaKeys(schemaA) = {}
         THEN "typeerror"
         ELSE IF \A name \in SchemaKeys(schemaA) :
                    SchemaLookup(schemaA, name) = SchemaLookup(schemaB, name)
              THEN "ok"
              ELSE "mismatch"
    ELSE "ok"

\* ------------------------------------------------------------------------
\* Expression nodes
\* ------------------------------------------------------------------------
NoNotify == [s |-> 0, ch |-> "none"]

EmptyNode ==
    [kind |-> "free", type |-> "none", a |-> 0, b |-> 0, mix |-> 0,
     parent |-> 0, notify |-> NoNotify, uid |-> -1, loc |-> 0,
     aTime |-> 0, bTime |-> 0, mixSet |-> FALSE, mixNum |-> 0,
     name |-> "none", schemaType |-> 0]

\* childrenNames, in the order of the object literal given to super()
Children(ns, n) ==
    CASE ns[n].kind = "blend" -> <<ns[n].a, ns[n].b, ns[n].mix>>
      [] ns[n].kind \in {"now", "top", "ramp", "linear"} -> <<ns[n].a>>
      [] ns[n].kind = "binary" -> <<ns[n].a, ns[n].b>>
      [] OTHER -> <<>>

\* Expression constructor: stores the node and sets child.parent = this
Alloc(w, rec) ==
    LET id == w.nextNode
        kids == {rec.a, rec.b, rec.mix} \ {0}
    IN [w EXCEPT !.nodes = [m \in 1..id |->
                               IF m = id THEN rec
                               ELSE IF m \in kids THEN [w.nodes[m] EXCEPT !.parent = id]
                               ELSE w.nodes[m]],
                 !.nextNode = id + 1]

Float(w) == Alloc(w, [EmptyNode EXCEPT !.kind = "float", !.type = "float"])

RGBA(w) == Alloc(w, [EmptyNode EXCEPT !.kind = "rgba", !.type = "color"])

\* Now: super({ now: float(0) })
Now(w) ==
    LET w1 == Float(w)
    IN Alloc(w1, [EmptyNode EXCEPT !.kind = "now", !.type = "float", !.a = w.nextNode])

Animate(w, duration) ==
    Alloc(w, [EmptyNode EXCEPT !.kind = "animate", !.type = "float",
                               !.aTime = w.now, !.bTime = w.now + duration])

\* Blend constructor: the type check happens before super()
BlendAccepts(w, a, b, mix) ==
    /\ w.nodes[mix].type = "float"
    /\ \/ w.nodes[a].type = "float" /\ w.nodes[b].type = "float"
       \/ w.nodes[a].type = "color" /\ w.nodes[b].type = "color"

Blend(w, a, b, mix) ==
    Alloc(w, [EmptyNode EXCEPT !.kind = "blend", !.type = w.nodes[a].type,
                               !.a = a, !.b = b, !.mix = mix])

\* Animate.isAnimated: !this.mix || this.mix <= 1.
AnimateIsAnimated(nd) ==
    LET den == nd.bTime - nd.aTime
    IN \/ ~nd.mixSet
       \/ nd.mixNum = 0
       \/ den > 0 /\ nd.mixNum <= den
       \/ den < 0 /\ nd.mixNum >= den

\* Animate._preDraw: the value handed to gl.uniform1f, as a fraction
\* <<numerator, denominator>>; 1 when mix > 1, else mix itself
AnimateUniform(nd) ==
    LET den == nd.bTime - nd.aTime
    IN IF \/ den > 0 /\ nd.mixNum > den
          \/ den < 0 /\ nd.mixNum < den
          \/ den = 0 /\ nd.mixNum > 0
       THEN <<1, 1>>
       ELSE <<nd.mixNum, den>>

RECURSIVE isAnimated(_, _)
isAnimated(ns, n) ==
    CASE ns[n].kind \in {"float", "rgba"} -> FALSE
      [] ns[n].kind = "now" -> TRUE
      [] ns[n].kind = "animate" -> AnimateIsAnimated(ns[n])
      [] OTHER -> \E i \in 1..Len(Children(ns, n)) : isAnimated(ns, Children(ns, n)[i])

\* The nodes reachable from n, n included
RECURSIVE Reach(_, _)
Reach(ns, n) ==
    {n} \cup UNION {Reach(ns, Children(ns, n)[i]) : i \in 1..Len(Children(ns, n))}

UniformKinds == {"float", "rgba", "animate"}

\* _applyToShaderSource: children first, in childrenNames order; a node that
\* owns a uniform takes the next id of the counter.
RECURSIVE applyToShaderSource(_, _, _)
RECURSIVE applySeq(_, _, _)
applyToShaderSource(ns, n, c) ==
    IF ns[n].kind \in UniformKinds
    THEN [nodes |-> [ns EXCEPT ![n].uid = c], c |-> c + 1]
    ELSE applySeq(ns, Children(ns, n), c)
applySeq(ns, seq, c) ==
    IF seq = <<>> THEN [nodes |-> ns, c |-> c]
    ELSE LET r == applyToShaderSource(ns, Head(seq), c)
         IN applySeq(r.nodes, Tail(seq), r.c)

\* Column names that are also members of Object.prototype: for them
\* `tid[name] !== undefined` holds on the empty object literal
InheritedNames == {"constructor"}

NUM_TEXTURE_LOCATIONS == 4

\* the closure compileShader hands down as propertyTIDMaker; tid is kept as
\* the sequence of its own keys in insertion order, tid[name] being the
\* position less one
propertyTIDMaker(tid, name) ==
    IF name \in InheritedNames \/ \E i \in 1..Len(tid) : tid[i] = name
    THEN tid
    ELSE Append(tid, name)

\* the calls of propertyTIDMaker made by root._applyToShaderSource: children
\* first, in childrenNames order; a Property asks for the slot of its name
RECURSIVE propertyTIDs(_, _, _)
RECURSIVE propertyTIDsSeq(_, _, _)
propertyTIDs(ns, n, tid) ==
    IF ns[n].kind = "property" THEN propertyTIDMaker(tid, ns[n].name)
    ELSE propertyTIDsSeq(ns, Children(ns, n), tid)
propertyTIDsSeq(ns, seq, tid) ==
    IF seq = <<>> THEN tid
    ELSE propertyTIDsSeq(ns, Tail(seq), propertyTIDs(ns, Head(seq), tid))

\* The styler's fragment shader declares property0..property3 and p0..p3;
\* the inline `p<slot>` of a Property is a declared name only for a slot
\* that is a number below NUM_TEXTURE_LOCATIONS
inlineDeclared(ns, root) ==
    LET names == {ns[n].name : n \in {m \in Reach(ns, root) : ns[m].kind = "property"}}
    IN /\ names \cap InheritedNames = {}
       /\ Len(propertyTIDs(ns, root, <<>>)) <= NUM_TEXTURE_LOCATIONS

\* _postShaderCompile: every uniform owner resolves its location in program
postShaderCompile(ns, root, program) ==
    LET owners == {m \in Reach(ns, root) : ns[m].kind \in UniformKinds}
    IN [m \in DOMAIN ns |->
           IF m \in owners THEN [ns[m] EXCEPT !.loc = program] ELSE ns[m]]

\* styler.createColorShader puts the inline in `gl_FragColor = $INLINE;`, which
\* compiles only for a vec4; createWidthShader wraps it in vec4((...)/64.),
\* which compiles for a float and for a vec4.
IsColorChannel(ch) == ch \in {"color", "strokeColor"}

shaderCreatorAccepts(ch, type) ==
    IF IsColorChannel(ch) THEN type = "color" ELSE TRUE

\* ------------------------------------------------------------------------
\* Shader compiler and Style
\* ------------------------------------------------------------------------
\* a requestAnimationFrame that runs the frame inside the call
RequestAnimationFrameInline(w) == [w EXCEPT !.lastFrame = w.now]

\* window.requestAnimationFrame(refresh.bind(renderer))
RequestAnimationFrame(w) == [w EXCEPT !.pendingRAF = @ + 1]

\* a compileShader whose program is created whatever slots the inline names
compileShaderAnySlot(w, root, ch) ==
    LET src == applyToShaderSource(w.nodes, root, 0)
        ok == shaderCreatorAccepts(ch, w.nodes[root].type)
    IN IF ok
       THEN [w |-> [w EXCEPT !.nodes = postShaderCompile(src.nodes, root, w.nextProgram),
                             !.nextProgram = @ + 1],
             ok |-> TRUE, program |-> w.nextProgram]
       ELSE [w |-> [w EXCEPT !.nodes = src.nodes], ok |-> FALSE, program |-> 0]

\* compileShader(gl, styleRootExpr, shaderCreator): the uniform ids are
\* assigned before the program is created, so they stay assigned when the
\* creation throws.
compileShader(w, root, ch) ==
    LET src == applyToShaderSource(w.nodes, root, 0)
        ok == /\ shaderCreatorAccepts(ch, w.nodes[root].type)
              /\ inlineDeclared(w.nodes, root)
    IN IF ok
       THEN [w |-> [w EXCEPT !.nodes = postShaderCompile(src.nodes, root, w.nextProgram),
                             !.nextProgram = @ + 1],
             ok |-> TRUE, program |-> w.nextProgram]
       ELSE [w |-> [w EXCEPT !.nodes = src.nodes], ok |-> FALSE, program |-> 0]

\* Style._compileColorShader and its three siblings
compileChannelShader(w, s, ch) ==
    LET r == compileShader(w, w.styles[s].root[ch], ch)
    IN IF r.ok
       THEN [w |-> [r.w EXCEPT !.styles[s].shader[ch] = r.program], ok |-> TRUE]
       ELSE [w |-> r.w, ok |-> FALSE]

\* node.notify(): the closure installed by the Style recompiles the channel's
\* current root and requests a frame; a node that never was a root has none.
notify(w, n) ==
    LET nf == w.nodes[n].notify
    IN IF nf.s = 0
       THEN [w |-> w, ok |-> FALSE]
       ELSE LET r == compileChannelShader(w, nf.s, nf.ch)
            IN IF r.ok
               THEN [w |-> RequestAnimationFrame(r.w), ok |-> TRUE]
               ELSE r

ZeroCh == [c \in Channels |-> 0]

\* target is history: the expressions the last Style.set was given
NoStyle ==
    [exists |-> FALSE, schema |-> UndefinedSchema, root |-> ZeroCh, shader |-> ZeroCh,
     target |-> ZeroCh]

SetRoot(w, s, ch, n) ==
    [w EXCEPT !.styles[s].root[ch] = n,
              !.nodes[n].parent = 0 - s,
              !.nodes[n].notify = [s |-> s, ch |-> ch]]

\* function Style(renderer, schema)
Style(w, schema) ==
    LET s == w.nextStyle
        w0 == [w EXCEPT !.styles[s] = [NoStyle EXCEPT !.exists = TRUE, !.schema = schema],
                        !.nextStyle = s + 1]
        w1 == SetRoot(Float(w0), s, "width", w0.nextNode)
        w2 == SetRoot(RGBA(w1), s, "color", w1.nextNode)
        w3 == SetRoot(RGBA(w2), s, "strokeColor", w2.nextNode)
        w4 == SetRoot(Float(w3), s, "strokeWidth", w3.nextNode)
        c1 == compileChannelShader(w4, s, "width").w
        c2 == compileChannelShader(c1, s, "color").w
        c3 == compileChannelShader(c2, s, "strokeColor").w
    IN compileChannelShader(c3, s, "strokeWidth").w

\* Style.setWidth / setColor / setStrokeColor / setStrokeWidth
setChannel(w, s, ch, n) == notify(SetRoot(w, s, ch, n), n)

\* Style._replaceChild: the slots are compared in the order color, width,
\* strokeColor, strokeWidth; no recompilation
StyleReplaceChild(w, s, toReplace, replacer) ==
    LET st == w.styles[s]
        ch == IF toReplace = st.root["color"] THEN "color"
              ELSE IF toReplace = st.root["width"] THEN "width"
              ELSE IF toReplace = st.root["strokeColor"] THEN "strokeColor"
              ELSE IF toReplace = st.root["strokeWidth"] THEN "strokeWidth"
              ELSE "none"
    IN IF ch = "none" THEN w
       ELSE [w EXCEPT !.styles[s].root[ch] = replacer,
                      !.nodes[replacer].parent = 0 - s,
                      !.nodes[replacer].notify = w.nodes[toReplace].notify]

\* Expression._replaceChild
ExpressionReplaceChild(w, p, toReplace, replacer) ==
    LET nd == w.nodes[p]
        nd1 == IF nd.kind \in {"blend", "now"} /\ nd.a = toReplace
               THEN [nd EXCEPT !.a = replacer]
               ELSE IF nd.kind = "blend" /\ nd.b = toReplace
               THEN [nd EXCEPT !.b = replacer]
               ELSE IF nd.kind = "blend" /\ nd.mix = toReplace
               THEN [nd EXCEPT !.mix = replacer]
               ELSE nd
        w1 == [w EXCEPT !.nodes[p] = nd1]
    IN [w1 EXCEPT !.nodes[replacer].parent = p,
                  !.nodes[replacer].notify = w.nodes[toReplace].notify]

\* a _replaceChild that leaves the parent as it was
replaceChildKeeps(w, parent, toReplace, replacer) == w

\* parent._replaceChild(toReplace, replacer): parent is a Style (negative
\* reference) or an Expression
replaceChild(w, parent, toReplace, replacer) ==
    IF parent < 0 THEN StyleReplaceChild(w, 0 - parent, toReplace, replacer)
    ELSE ExpressionReplaceChild(w, parent, toReplace, replacer)

\* Expression.blendTo(final, duration): animate() is built first, then the
\* Blend constructor validates, then the parent swaps the child and the
\* blender's notify recompiles.
blendTo(w, n, final, duration) ==
    LET parent == w.nodes[n].parent
        w1 == Animate(w, duration)
        anim == w.nextNode
    IN IF ~BlendAccepts(w1, n, final, anim)
       THEN [w |-> w1, ok |-> FALSE]
       ELSE IF parent = 0
       THEN [w |-> Blend(w1, n, final, anim), ok |-> FALSE]
       ELSE LET w2 == Blend(w1, n, final, anim)
                blender == w1.nextNode
            IN notify(replaceChild(w2, parent, n, blender), blender)

\* Style.set(s, duration): the four targets are defaulted first, then the
\* channels are cross-faded in the order width, color, strokeColor,
\* strokeWidth; an exception leaves the rest undone.
SetOrder == <<"width", "color", "strokeColor", "strokeWidth">>

RECURSIVE blendChannels(_, _, _, _, _)
blendChannels(w, s, targets, duration, i) ==
    IF i > Len(SetOrder) THEN [w |-> w, ok |-> TRUE]
    ELSE LET ch == SetOrder[i]
             r == blendTo(w, w.styles[s].root[ch], targets[ch], duration)
         IN IF r.ok THEN blendChannels(r.w, s, targets, duration, i + 1)
            ELSE r

\* blend(blend(1, 2, animate(d)), 3, now()): a Blend with an Animate nested
\* under a Blend that never collapses
Nested(w) ==
    LET w1 == Float(Float(w))
        w2 == Animate(w1, CHOOSE d \in Durations : TRUE)
        w3 == Blend(w2, w.nextNode, w.nextNode + 1, w.nextNode + 2)
        w4 == Now(Float(w3))
    IN Blend(w4, w.nextNode + 3, w.nextNode + 4, w.nextNode + 6)

\* An expression the caller builds: "float", "rgba", "now" or "nested"
Build(w, tmpl) ==
    CASE tmpl = "float" -> Float(w)
      [] tmpl = "rgba" -> RGBA(w)
      [] tmpl = "now" -> Now(w)
      [] tmpl = "nested" -> Nested(w)

\* the default target of a channel missing from the dictionary
DefaultTemplate(ch) == IF IsColorChannel(ch) THEN "rgba" ELSE "float"

TargetTemplate(dict, ch) == IF dict[ch] = "absent" THEN DefaultTemplate(ch) ELSE dict[ch]

\* the root of the tree Build allocates is the last node it allocates
styleSet(w, s, dict, duration) ==
    LET w1 == Build(w, TargetTemplate(dict, "color"))
        w2 == Build(w1, TargetTemplate(dict, "width"))
        w3 == Build(w2, TargetTemplate(dict, "strokeColor"))
        w4 == Build(w3, TargetTemplate(dict, "strokeWidth"))
        targets == [ch \in Channels |->
                       CASE ch = "color" -> w1.nextNode - 1
                         [] ch = "width" -> w2.nextNode - 1
                         [] ch = "strokeColor" -> w3.nextNode - 1
                         [] ch = "strokeWidth" -> w4.nextNode - 1]
    IN blendChannels(w4, s, targets, duration, 1)

\* ------------------------------------------------------------------------
\* Dataframe and Renderer
\* ------------------------------------------------------------------------
NoDf ==
    [state |-> "none", schema |-> UndefinedSchema, propertyTex |-> "undefined",
     tex |-> "undefined", style |-> 0, allocs |-> 0, released |-> 0,
     freeCalls |-> 0, freedLive |-> FALSE]

\* a free() without the propertyTex guard
freeUnguarded(df) ==
    [df EXCEPT !.propertyTex = "null", !.tex = "freed", !.released = @ + 1]

\* Dataframe.free(): the textures and buffers are deleted only while
\* propertyTex is set; `released` counts the executions of the delete block
free(df) ==
    IF df.propertyTex = "array"
    THEN [df EXCEPT !.propertyTex = "null", !.tex = "freed", !.released = @ + 1]
    ELSE df

\* a call dataframe.free()
CallFree(w, d) ==
    [w EXCEPT !.dfs[d] = [free(w.dfs[d]) EXCEPT
                             !.freeCalls = @ + 1,
                             !.freedLive = @ \/ (/\ w.dfs[d].propertyTex = "array"
                                                 /\ \E i \in 1..Len(w.tiles) :
                                                       w.tiles[i] = d)]]

RECURSIVE Without(_, _)
Without(seq, x) ==
    IF seq = <<>> THEN <<>>
    ELSE IF Head(seq) = x THEN Without(Tail(seq), x)
    ELSE <<Head(seq)>> \o Without(Tail(seq), x)

\* a removeDataframe that leaves the live list as it is
removeDataframeKeeps(w, d) == w

\* Renderer.removeDataframe: this.tiles.filter(t => t !== dataframe)
removeDataframe(w, d) == [w EXCEPT !.tiles = Without(w.tiles, d)]

\* Renderer.addDataframe: pushes, creates the property textures, the four
\* channel textures and the two buffers, resets the style, requests a frame
addDataframe(w, d) ==
    RequestAnimationFrame(
        [w EXCEPT !.tiles = Append(w.tiles, d),
                  !.dfs[d].propertyTex = "array",
                  !.dfs[d].tex = "live",
                  !.dfs[d].style = 0,
                  !.dfs[d].allocs = @ + 1])

\* dataframe.setStyle(style): the style is stored before the schemas are
\* checked; the frame is requested only when the check does not throw
setStyle(w, d, s) ==
    LET w1 == [w EXCEPT !.dfs[d].style = s]
    IN IF s # 0 /\ checkSchemaMatch(w.styles[s].schema, w.dfs[d].schema) # "ok"
       THEN [w |-> w1, ok |-> FALSE]
       ELSE [w |-> RequestAnimationFrame(w1), ok |-> TRUE]

\* _preDraw: Animate recomputes mix from Date.now(); a Blend whose mix is an
\* Animate that is no longer animated replaces itself by b in its parent
RECURSIVE preDraw(_, _)
RECURSIVE preDrawSeq(_, _)
preDraw(w, n) ==
    LET nd == w.nodes[n]
    IN CASE nd.kind = "animate" ->
                [w EXCEPT !.nodes[n].mixSet = TRUE, !.nodes[n].mixNum = w.now - nd.aTime]
         [] nd.kind = "blend" ->
                LET w1 == preDrawSeq(w, Children(w.nodes, n))
                    me == w1.nodes[n]
                IN IF w1.nodes[me.mix].kind = "animate" /\ ~isAnimated(w1.nodes, me.mix)
                   THEN replaceChild(w1, me.parent, n, me.b)
                   ELSE w1
         [] nd.kind = "now" -> preDrawSeq(w, Children(w.nodes, n))
         [] OTHER -> w
preDrawSeq(w, seq) ==
    IF seq = <<>> THEN w
    ELSE preDrawSeq(preDraw(w, Head(seq)), Tail(seq))

\* this.tiles.filter(tile => tile.style)
RECURSIVE StyledTiles(_, _)
StyledTiles(w, seq) ==
    IF seq = <<>> THEN <<>>
    ELSE IF w.dfs[Head(seq)].style # 0
         THEN <<Head(seq)>> \o StyledTiles(w, Tail(seq))
         ELSE StyledTiles(w, Tail(seq))

\* pass 1 runs the channels in this order, each over all the styled tiles
PassOrder == <<"color", "width", "strokeColor", "strokeWidth">>

\* tiles.map(tile => styleTile(tile, ..., tile.style._color, ...))
RECURSIVE styleTiles(_, _, _)
styleTiles(w, ts, ch) ==
    IF ts = <<>> THEN w
    ELSE LET w1 == preDraw(w, w.styles[w.dfs[Head(ts)].style].root[ch])
         IN styleTiles([w1 EXCEPT !.lastOp.written = Append(@, <<Head(ts), ch>>)],
                       Tail(ts), ch)

RECURSIVE pass1(_, _, _)
pass1(w, ts, i) ==
    IF i > Len(PassOrder) THEN w
    ELSE pass1(styleTiles(w, ts, PassOrder[i]), ts, i + 1)

\* the channels the re-arm step looks at
RearmChannels == {"color", "width"}

\* a refresh that never requests the next frame
rearmNever(w, ts) == w

\* tiles.forEach(t => { if (...) requestAnimationFrame(refresh) })
RECURSIVE rearm(_, _)
rearm(w, ts) ==
    IF ts = <<>> THEN w
    ELSE LET st == w.styles[w.dfs[Head(ts)].style]
             w1 == IF \E ch \in RearmChannels : isAnimated(w.nodes, st.root[ch])
                   THEN RequestAnimationFrame(w)
                   ELSE w
         IN rearm(w1, Tail(ts))

\* ------------------------------------------------------------------------
\* Constructors that validate (or do not validate) their inputs
\* ------------------------------------------------------------------------
\* A schema with a Float column "amount" (type object 1) and a Category
\* column "kind" (type object 2)
CtorSchema == [defined |-> TRUE, props |-> {<<"amount", 1>>, <<"kind", 2>>}]

\* the class of a schema type object
TypeClass(t) == IF t = 1 THEN "Float" ELSE IF t = 2 THEN "Category" ELSE "none"

Thrown(w) == [w |-> w, ok |-> FALSE, id |-> 0]

Built(w) == [w |-> w, ok |-> TRUE, id |-> w.nextNode - 1]

\* new Property(name, schema)
Property(w, name, schema) ==
    IF name = "" \/ SchemaLookup(schema, name) = 0 THEN Thrown(w)
    ELSE Built(Alloc(w, [EmptyNode EXCEPT !.kind = "property", !.type = "float",
                                          !.name = name,
                                          !.schemaType = SchemaLookup(schema, name)]))

\* new Top(property, buckets): no validation
Top(w, property) ==
    Built(Alloc(w, [EmptyNode EXCEPT !.kind = "top", !.type = "float", !.a = property]))

\* new Ramp(input, palette, minKey, maxKey): the keys default from the
\* input's schema type or from Top; a key left undefined throws; the keys
\* are cast to Float nodes
Ramp(w, input, keysGiven) ==
    LET nd == w.nodes[input]
        known == \/ keysGiven
                 \/ TypeClass(nd.schemaType) \in {"Float", "Category"}
                 \/ nd.kind = "top"
    IN IF ~known THEN Thrown(w)
       ELSE Built(Alloc(Float(Float(w)),
                        [EmptyNode EXCEPT !.kind = "ramp", !.type = "color", !.a = input]))

\* new Linear(m) / new Cubic(m): the constructor never assigns this.type
Interpolator(w, m) ==
    IF w.nodes[m].type # "float" THEN Thrown(w)
    ELSE Built(Alloc(w, [EmptyNode EXCEPT !.kind = "linear", !.a = m]))

\* new Float(x) of src/core/style/expressions/float.js: the type is assigned
\* by _compile(), not by the constructor
FloatUncompiled(w) == Alloc(w, [EmptyNode EXCEPT !.kind = "float"])

\* new BinaryOperation(a, b) on two nodes
BinaryOperation(w, a, b) ==
    IF w.nodes[a].type = "float" /\ w.nodes[b].type = "float"
    THEN Built(Alloc(w, [EmptyNode EXCEPT !.kind = "binary", !.type = "float",
                                          !.a = a, !.b = b]))
    ELSE Thrown(w)

\* A schema that also has a column called "constructor"
TidSchema ==
    [defined |-> TRUE,
     props |-> {<<"amount", 1>>, <<"kind", 2>>, <<"constructor", 2>>,
                <<"name", 2>>, <<"price", 1>>, <<"year", 1>>,
                <<"2", 1>>, <<"10", 1>>}]

\* graphs for the slot budget: sums of column references, the columns taken
\* in the order below, up to MaxRefs references
SlotColumns == <<"amount", "kind", "name", "price", "year">>

SlotSeqs ==
    UNION {{[i \in 1..k |-> SlotColumns[f[i]]] :
               f \in {g \in [1..k -> 1..Len(SlotColumns)] :
                          \A i \in 1..(k - 1) : g[i] <= g[i + 1]}} :
           k \in 1..MaxRefs}

\* the leaves of the graphs compiled: three property references and float(1)
Leaves == {"amount", "kind", "constructor", "float"}

LeafSeqs == UNION {[1..k -> Leaves] : k \in 1..MaxLeaves}

BuildLeaf(w, l) ==
    IF l = "float" THEN Built(Float(w)) ELSE Property(w, l, TidSchema)

\* floatAdd(floatAdd(l1, l2), l3) ...: the leaves summed from the left; acc is
\* the node built so far
RECURSIVE BuildSum(_, _, _, _)
BuildSum(w, ls, i, acc) ==
    IF i > Len(ls) THEN w
    ELSE LET leaf == BuildLeaf(w, ls[i])
         IN IF acc = 0 THEN BuildSum(leaf.w, ls, i + 1, leaf.id)
            ELSE LET sum == BinaryOperation(leaf.w, acc, leaf.id)
                 IN BuildSum(sum.w, ls, i + 1, sum.id)

\* the constructions tried: the first set obeys the accepted input types,
\* the second references an absent property or feeds a wrong-typed input
ValidCalls ==
    {"float", "floatSrc", "rgba", "property", "topCategory", "rampFloat", "linear"}

InvalidCalls ==
    {"propertyMissing", "topFloat", "rampColor", "rampColorKeys", "linearColor",
     "blendMixed", "mulColor"}

\* one constructor call; the argument expressions are evaluated, and their
\* nodes built, before the constructor runs
construct(w, call) ==
    LET amount == Property(w, "amount", CtorSchema)
        kind == Property(w, "kind", CtorSchema)
        color == RGBA(w)
        colorId == w.nextNode
    IN CASE call = "float" -> Built(Float(w))
         [] call = "floatSrc" -> Built(FloatUncompiled(w))
         [] call = "rgba" -> Built(color)
         [] call = "property" -> amount
         [] call = "propertyMissing" -> Property(w, "missing", CtorSchema)
         [] call = "topCategory" -> Top(kind.w, kind.id)
         [] call = "topFloat" -> Top(amount.w, amount.id)
         [] call = "rampFloat" -> Ramp(amount.w, amount.id, FALSE)
         [] call = "rampColor" -> Ramp(color, colorId, FALSE)
         [] call = "rampColorKeys" -> Ramp(color, colorId, TRUE)
         [] call = "linear" -> Interpolator(Float(w), w.nextNode)
         [] call = "linearColor" -> Interpolator(color, colorId)
         [] call = "blendMixed" ->
                LET w2 == Float(RGBA(Float(w)))
                IN IF BlendAccepts(w2, w.nextNode, w.nextNode + 1, w.nextNode + 2)
                   THEN Built(Blend(w2, w.nextNode, w.nextNode + 1, w.nextNode + 2))
                   ELSE Thrown(w2)
         [] OTHER -> BinaryOperation(Float(color), colorId, colorId + 1)

\* ------------------------------------------------------------------------
\* jsep and the style parser
\* ------------------------------------------------------------------------
BinaryOpNames ==
    {"||", "&&", "|", "^", "&", "==", "!=", "===", "!==", "<", ">", "<=", ">=",
     "<<", ">>", ">>>", "+", "-", "*", "/", "%", ":"}

\* binary_ops as jsep defines it; ":" is not an operator of jsep
jsepBinaryOps ==
    [op \in BinaryOpNames |->
        CASE op = "||" -> 1
          [] op = "&&" -> 2
          [] op = "|" -> 3
          [] op = "^" -> 4
          [] op = "&" -> 5
          [] op \in {"==", "!=", "===", "!=="} -> 6
          [] op \in {"<", ">", "<=", ">="} -> 7
          [] op \in {"<<", ">>", ">>>"} -> 8
          [] op \in {"+", "-"} -> 9
          [] op \in {"*", "/", "%"} -> 10
          [] OTHER -> 0]

addBinaryOp(w, op_name, precedence) == [w EXCEPT !.binary_ops[op_name] = precedence]

removeBinaryOp(w, op_name) == [w EXCEPT !.binary_ops[op_name] = 0]

\* The expressions of the documents: 3, rgba(0.8, 0, 0, 1), now(), 2 ^ 3 and
\* foo(), a call of a function that does not exist
ParseExprs == {"lit", "rgba", "now", "pow", "bad"}

ParseKeys == {"width", "color"}

Pairs == [key : ParseKeys, expr : ParseExprs]

\* documents of 1..MaxPairs lines `key: expression`
Docs == UNION {[1..k -> Pairs] : k \in 1..MaxPairs}

\* jsep(str): tokenising fails on an operator that is not in binary_ops
jsepAccepts(table, e) == e = "pow" => table["^"] # 0

\* what parseNode returns: a JavaScript number or an expression node
NoValue == [isNode |-> FALSE, id |-> 0, isNumber |-> FALSE]

NumberValue == [isNode |-> FALSE, id |-> 0, isNumber |-> TRUE]

NodeValue(n) == [isNode |-> TRUE, id |-> n, isNumber |-> FALSE]

\* parseNode on the tree jsep built for expression e
parseNode(w, e) ==
    CASE e = "lit" -> [w |-> w, ok |-> TRUE, value |-> NumberValue]
      [] e = "rgba" -> [w |-> RGBA(w), ok |-> TRUE, value |-> NodeValue(w.nextNode)]
      [] e = "now" -> [w |-> Now(w), ok |-> TRUE, value |-> NodeValue(w.nextNode + 1)]
      [] e = "pow" -> [w |-> Float(w), ok |-> TRUE, value |-> NodeValue(w.nextNode)]
      [] OTHER -> [w |-> w, ok |-> FALSE, value |-> NoValue]

\* parseStyleExpression(str, schema)
parseStyleExpression(w, e) ==
    LET w1 == addBinaryOp(w, "^", 10)
        r == parseNode(w1, e)
    IN IF ~jsepAccepts(w1.binary_ops, e) THEN [w |-> w1, ok |-> FALSE, value |-> NoValue]
       ELSE IF ~r.ok THEN r
       ELSE [r EXCEPT !.w = removeBinaryOp(r.w, "^")]

\* ast.body.map(node => parseStyleNamedExpr(style, node, schema)), from line i
RECURSIVE parseStyleNamedExprs(_, _, _, _)
parseStyleNamedExprs(w, d, i, style) ==
    IF i > Len(d) THEN [w |-> w, ok |-> TRUE, style |-> style]
    ELSE LET r == parseNode(w, d[i].expr)
             name == d[i].key
         IN IF ~r.ok THEN [w |-> r.w, ok |-> FALSE, style |-> <<>>]
            ELSE parseStyleNamedExprs(r.w, d, i + 1,
                    [k \in (DOMAIN style) \cup {name} |->
                        IF k = name THEN r.value ELSE style[k]])

\* parseStyle(str, schema): jsep yields a Compound for two expressions or
\* more and the expression itself for one; the branch for one reads the
\* undeclared variable `node`
parseStyle(w, d) ==
    LET w1 == addBinaryOp(addBinaryOp(w, ":", 1), "^", 10)
        r == parseStyleNamedExprs(w1, d, 1, <<>>)
    IN IF \E i \in 1..Len(d) : ~jsepAccepts(w1.binary_ops, d[i].expr)
       THEN [w |-> w1, ok |-> FALSE, style |-> <<>>]
       ELSE IF Len(d) = 1 THEN [w |-> w1, ok |-> FALSE, style |-> <<>>]
       ELSE IF ~r.ok THEN r
       ELSE [r EXCEPT !.w = removeBinaryOp(removeBinaryOp(r.w, "^"), ":")]

\* ------------------------------------------------------------------------
\* Reference systems (rsys)
\* ------------------------------------------------------------------------
\* The numbers of rsys are sums, products and quotients of integers, 0.5 and
\* powers of two: they are kept as fractions in lowest terms, which is the
\* value the double arithmetic gives while the powers of two stay below 2^52.
Abs(n) == IF n < 0 THEN -n ELSE n

RECURSIVE Gcd(_, _)
Gcd(a, b) == IF b = 0 THEN a ELSE Gcd(b, a % b)

Frac(n, d) ==
    LET g == Gcd(Abs(n), Abs(d))
        sgn == IF d < 0 THEN -1 ELSE 1
    IN [n |-> sgn * (n \div g), d |-> sgn * (d \div g)]

Num(n) == Frac(n, 1)

Half == Frac(1, 2)

FAdd(p, q) == Frac(p.n * q.d + q.n * p.d, p.d * q.d)

FSub(p, q) == Frac(p.n * q.d - q.n * p.d, p.d * q.d)

FMul(p, q) == Frac(p.n * q.n, p.d * q.d)

FDiv(p, q) == Frac(p.n * q.d, p.d * q.n)

\* Math.pow(2, z)
RECURSIVE Pow2(_)
Pow2(z) == IF z = 0 THEN 1 ELSE 2 * Pow2(z - 1)

NoRsys == [scale |-> Num(0), center |-> [x |-> Num(0), y |-> Num(0)]]

\* function tileRsys(x, y, z)
tileRsys(x, y, z) ==
    LET max == Num(Pow2(z))
    IN [scale |-> FDiv(Num(1), max),
        center |-> [x |-> FSub(FDiv(FMul(Num(2), FAdd(Num(x), Half)), max), Num(1)),
                    y |-> FSub(Num(1), FDiv(FMul(Num(2), FAdd(Num(y), Half)), max))]]

\* a getRsysFromTile that takes the corner of the tile for its center
getRsysFromTileCorner(x, y, z) ==
    [center |-> [x |-> FSub(FMul(FDiv(Num(x), Num(Pow2(z))), Num(2)), Num(1)),
                 y |-> FSub(FMul(FSub(Num(1), FDiv(Num(y), Num(Pow2(z)))), Num(2)),
                            Num(1))],
     scale |-> FDiv(Num(1), Num(Pow2(z)))]

\* function getRsysFromTile(x, y, z)
getRsysFromTile(x, y, z) ==
    [center |-> [x |-> FSub(FMul(FDiv(FAdd(Num(x), Half), Num(Pow2(z))), Num(2)),
                            Num(1)),
                 y |-> FSub(FMul(FSub(Num(1), FDiv(FAdd(Num(y), Half), Num(Pow2(z)))),
                                 Num(2)),
                            Num(1))],
     scale |-> FDiv(Num(1), Num(Pow2(z)))]

\* ------------------------------------------------------------------------
\* The texture of a Ramp and its lookup
\* ------------------------------------------------------------------------
\* const width = 256
RAMP_WIDTH == 256

Floor(f) == f.n \div f.d

Ceil(f) == -((-f.n) \div f.d)

ClampIndex(i) == IF i < 0 THEN 0 ELSE IF i > RAMP_WIDTH - 1 THEN RAMP_WIDTH - 1 ELSE i

\* Ramp constructor, input.schemaType instanceof Category, no keys given:
\* minKey = -1; maxKey = input.schemaType.categoryNames.length
rampKeys(numCategories) == [minKey |-> -1, maxKey |-> numCategories]

\* _postShaderCompile: byte c of texel i of the 256 x 1 texture, as the
\* Uint8Array stores it
rampTexel(values, i, c) ==
    LET pos == Frac(i * (Len(values) - 1), RAMP_WIDTH)
        vlow == values[Floor(pos) + 1][c]
        vhigh == values[Ceil(pos) + 1][c]
        m == FSub(pos, Num(Floor(pos)))
        v == FAdd(FMul(Num(vlow), FSub(Num(1), m)), FMul(Num(vhigh), m))
    IN Floor(v)

\* texture2D(texRamp, vec2(u, 0.5)) with TEXTURE_MIN/MAG_FILTER LINEAR and
\* TEXTURE_WRAP_S CLAMP_TO_EDGE: the two texels around u * width - 0.5, in
\* units of 1/255
texture2D(values, u, c) ==
    LET t == FSub(FMul(u, Num(RAMP_WIDTH)), Half)
        i0 == Floor(t)
        f == FSub(t, Num(i0))
    IN FAdd(FMul(FSub(Num(1), f), Num(rampTexel(values, ClampIndex(i0), c))),
            FMul(f, Num(rampTexel(values, ClampIndex(i0 + 1), c))))

\* the inline of a Ramp with the uniforms _preDraw uploads:
\* texture2D(texRamp, vec2((input - keyMin) / keyWidth, 0.5)).rgba
rampInline(values, keys, input) ==
    LET u == FDiv(Num(input - keys.minKey), Num(keys.maxKey - keys.minKey))
    IN [c \in {"r", "g", "b"} |-> texture2D(values, u, c)]

\* ------------------------------------------------------------------------
\* Classifiers: getBreakpointList
\* ------------------------------------------------------------------------
\* The classifiers are exercised by the tests of TileClient.js only; what
\* follows computes the lists those tests expect.
FLeq(p, q) == p.n * q.d <= q.n * p.d

RECURSIVE SumSeq(_)
SumSeq(seq) == IF seq = <<>> THEN 0 ELSE Head(seq) + SumSeq(Tail(seq))

\* values.sort((a, b) => a - b)
RECURSIVE insertSorted(_, _)
insertSorted(seq, v) ==
    IF seq = <<>> THEN <<v>>
    ELSE IF v <= Head(seq) THEN <<v>> \o seq
    ELSE <<Head(seq)>> \o insertSorted(Tail(seq), v)

RECURSIVE sortNumbers(_)
sortNumbers(seq) ==
    IF seq = <<>> THEN <<>> ELSE insertSorted(sortNumbers(Tail(seq)), Head(seq))

\* quantiles that read the sample in the order of the features
quantilesUnsorted(sample, n) ==
    [i \in 1..(n - 1) |-> Num(sample[((i * Len(sample)) \div n) + 1])]

\* globalQuantiles / viewportQuantiles: the i-th breakpoint is the value at
\* position floor(i * length / n) of the sorted values
quantiles(sample, n) ==
    LET sorted == sortNumbers(sample)
    IN [i \in 1..(n - 1) |-> Num(sorted[((i * Len(sorted)) \div n) + 1])]

\* globalEqIntervals / viewportEqIntervals over [min, max]
eqIntervals(sample, n) ==
    LET sorted == sortNumbers(sample)
        min == sorted[1]
        max == sorted[Len(sorted)]
    IN [i \in 1..(n - 1) |-> FAdd(Num(min), FMul(Frac(i, n), Num(max - min)))]

\* globalStandardDev / viewportStandardDev with class size 1: multiples of
\* the deviation on both sides of the average, and the average itself when
\* the number of buckets is even
standardDev(sample, std, n) ==
    LET sorted == sortNumbers(sample)
        avg == Frac(SumSeq(sample), Len(sample))
        side == (n - 1) \div 2
        under == [i \in 1..side |-> FSub(avg, Num((side + 1 - i) * std))]
        over == [i \in 1..side |-> FAdd(avg, Num(i * std))]
    IN IF n % 2 = 0 THEN under \o <<avg>> \o over ELSE under \o over

getBreakpointList(classifier, sample, std, n) ==
    CASE classifier = "quantiles" -> quantiles(sample, n)
      [] classifier = "eqIntervals" -> eqIntervals(sample, n)
      [] classifier = "standardDev" -> standardDev(sample, std, n)

NoClassifier == [classifier |-> "none", sample |-> <<>>, std |-> 0, n |-> 0]

\* ------------------------------------------------------------------------
\* TileClient of src/sources/TileClient.js
\* ------------------------------------------------------------------------
\* the JavaScript remainder a % b: it has the sign of the dividend
JsRemainder(a, b) == IF a < 0 THEN 0 - ((0 - a) % b) ELSE a % b

\* a _getSubdomainIndex without Math.abs
getSubdomainIndexSigned(templateURLs, x, y) ==
    JsRemainder(x + y, Len(templateURLs))

\* TileClient._getSubdomainIndex: Math.abs(x + y) % this._templateURLs.length
getSubdomainIndex(templateURLs, x, y) ==
    JsRemainder(Abs(x + y), Len(templateURLs))

\* TileClient._getTileUrl: the template at the index (JavaScript arrays are
\* 0-based; an index outside the array gives undefined, and .replace throws)
\* with {x}, {y} and {z} replaced
getTileUrl(templateURLs, x, y, z) ==
    LET subdomainIndex == getSubdomainIndex(templateURLs, x, y)
    IN IF subdomainIndex + 1 \in 1..Len(templateURLs)
       THEN [threw |-> FALSE, template |-> templateURLs[subdomainIndex + 1],
             x |-> x, y |-> y, z |-> z]
       ELSE [threw |-> TRUE, template |-> "undefined", x |-> x, y |-> y, z |-> z]

\* TileClient.getTiles(tiles): tiles.map(({x, y, z}) => ({ response:
\* fetch(url), xyz }))
RECURSIVE getTiles(_, _)
getTiles(templateURLs, requested) ==
    IF requested = <<>> THEN <<>>
    ELSE LET t == Head(requested)
         IN <<[response |-> getTileUrl(templateURLs, t.x, t.y, t.z), xyz |-> t]>>
            \o getTiles(templateURLs, Tail(requested))

NoClient == [templateURLs |-> <<>>, requested |-> <<>>, entries |-> <<>>]

\* x to the power y for a non-negative integer y
RECURSIVE IPow(_, _)
IPow(x, y) == IF y = 0 THEN 1 ELSE x * IPow(x, y - 1)

\* a JavaScript number that Number.isFinite accepts, or one it rejects
Finite(f) == [finite |-> TRUE, v |-> f]

NotFinite == [finite |-> FALSE, v |-> Num(0)]

\* the operators parseNode dispatches on: floatMul, floatDiv, floatAdd,
\* floatSub, floatMod, floatPow
BinaryOperators == <<"*", "/", "+", "-", "%", "^">>

\* the jsFn handed to genBinaryOp by FloatMul, FloatDiv, FloatAdd, FloatSub,
\* FloatMod ((x, y) => x - y) and FloatPow
jsFn(op, x, y) ==
    CASE op = "*" -> Finite(Num(x * y))
      [] op = "/" -> IF y = 0 THEN NotFinite ELSE Finite(Frac(x, y))
      [] op = "+" -> Finite(Num(x + y))
      [] op = "-" -> Finite(Num(x - y))
      [] op = "%" -> Finite(Num(x - y))
      [] op = "^" -> Finite(Num(IPow(x, y)))

\* what the glsl handed to genBinaryOp evaluates to for two float uniforms:
\* (x * y), (x / y), (x + y), (x - y), mod(x, y) = x - y * floor(x / y) and
\* pow(x, y); GLSL leaves x / 0, mod(x, 0) and pow(0, 0) undefined
glsl(op, x, y) ==
    CASE op = "*" -> Finite(Num(x * y))
      [] op = "/" -> IF y = 0 THEN NotFinite ELSE Finite(Frac(x, y))
      [] op = "+" -> Finite(Num(x + y))
      [] op = "-" -> Finite(Num(x - y))
      [] op = "%" -> IF y = 0 THEN NotFinite
                     ELSE Finite(Num(x - y * Floor(Frac(x, y))))
      [] op = "^" -> IF x = 0 /\ y = 0 THEN NotFinite ELSE Finite(Num(IPow(x, y)))

\* const width = 1024 of Top._postShaderCompile, and the 1024. of its inline
TOP_WIDTH == 1024

\* the largest value of a byte of the Uint8Array
BYTE_MAX == 255

\* getCategoryTypes: json.rows.map((row, id) => ... ids.push(id)), the rows
\* ordered by COUNT(*) DESC: the i-th most frequent category has id i
categoryIDs(k) == [i \in 1..k |-> i - 1]

\* a store into a Uint8Array: the number is truncated and taken modulo 256
ToUint8(f) == Floor(f) % (BYTE_MAX + 1)

\* if (this.buckets > schema.categoryIDs.length) this.buckets = ...length
clampBuckets(buckets, k) == IF buckets > k THEN k ELSE buckets

\* Top._postShaderCompile: the alpha bytes of the width x 1 texture;
\* pixels[4 * categoryIDs[i] + 3] = 255 * (i + 1) / buckets for
\* i < buckets - 1, and a store beyond the array's length is dropped
topPixels(ids, buckets) ==
    [t \in 0..(TOP_WIDTH - 1) |->
        IF t + 1 <= Len(ids) /\ t < buckets - 1 /\ ids[t + 1] = t
        THEN ToUint8(Frac(BYTE_MAX * (t + 1), buckets))
        ELSE 0]

\* texture2D(topMap, vec2(id / 1024., 0.5)).a with NEAREST and CLAMP_TO_EDGE:
\* the byte of texel floor(id / 1024 * width), clamped to the last texel
topInline(pixels, id) ==
    pixels[IF id > TOP_WIDTH - 1 THEN TOP_WIDTH - 1 ELSE id]

NoTop ==
    [k |-> 0, requested |-> 0, buckets |-> 0, cat |-> 0, pixels |-> <<>>,
     value |-> 0]

NoFold ==
    [op |-> "+", a |-> 0, b |-> 0, threw |-> FALSE, value |-> NotFinite,
     shader |-> NotFinite]

\* new BinaryOperation(a, b) for two numbers: return float(jsFn(a, b)), and
\* the Float constructor throws for a value that is not finite
BinaryOperationOfNumbers(w, op, a, b) ==
    LET x == jsFn(op, a, b)
        w1 == IF x.finite THEN Float(w) ELSE w
    IN [w1 EXCEPT !.lastOp.fold = [op |-> op, a |-> a, b |-> b,
                                   threw |-> ~x.finite, value |-> x,
                                   shader |-> glsl(op, a, b)]]

Op(name) ==
    [name |-> name, threw |-> FALSE, s |-> 0, ch |-> "none", d |-> 0,
     n |-> 0, slot |-> "none", blender |-> 0, rootsBefore |-> ZeroCh, shadersBefore |-> ZeroCh, styleBefore |-> 0,
     callbacks |-> 0, draws |-> 0, rearmed |-> FALSE, drawn |-> <<>>,
     mixes |-> <<>>, tableBefore |-> jsepBinaryOps, style |-> <<>>,
     value |-> NoValue, call |-> "none",
     tid |-> <<>>, tidBefore |-> <<>>, program |-> 0,
     schemaA |-> UndefinedSchema, schemaB |-> UndefinedSchema, outcome |-> "none",
     tile |-> [x |-> 0, y |-> 0, z |-> 0], rsys |-> NoRsys, tileRsys |-> NoRsys,
     palette |-> <<>>, cat |-> 0, color |-> [c \in {"r", "g", "b"} |-> Num(0)],
     classified |-> NoClassifier, breakpoints |-> <<>>, units |-> <<>>,
     written |-> <<>>, pass2 |-> <<>>, fold |-> NoFold, top |-> NoTop,
     client |-> NoClient]

\* a refresh without the lastFrame guard
neverDrawn(w, timestamp) == FALSE

\* if (this.lastFrame == timestamp) return;
alreadyDrawn(w, timestamp) == w.lastFrame = timestamp

\* a second pass that walks this.tiles again, without the style filter
pass2TilesUnfiltered(w, ts) == w.tiles

\* the second pass, tiles.forEach(tile => ... gl.drawArrays(gl.POINTS ...)),
\* walks the constant `tiles` that the first pass filtered
pass2Tiles(w, ts) == ts

\* function refresh(timestamp), one requestAnimationFrame callback; lastOp
\* counts the draws of the tick and keeps what the last draw saw
refresh(w, timestamp) ==
    IF alreadyDrawn(w, timestamp)
    THEN w
    ELSE LET w1 == [w EXCEPT !.lastFrame = timestamp]
             ts == StyledTiles(w1, w1.tiles)
             w2 == pass1(w1, ts, 1)
             w3 == rearm(w2, ts)
         IN [w3 EXCEPT !.lastOp.draws = @ + 1,
                       !.lastOp.drawn = ts,
                       !.lastOp.pass2 = pass2Tiles(w2, ts),
                       !.lastOp.rearmed = (w3.pendingRAF > w2.pendingRAF)]

\* the browser runs the n callbacks registered for a frame, one after the
\* other, all with the same timestamp
RECURSIVE runCallbacks(_, _, _)
runCallbacks(w, timestamp, n) ==
    IF n = 0 THEN w ELSE runCallbacks(refresh(w, timestamp), timestamp, n - 1)

\* ------------------------------------------------------------------------
\* Promises and the microtask queue
\* ------------------------------------------------------------------------
NoPromise ==
    [state |-> "unused", key |-> 0, value |-> 0, reactions |-> <<>>,
     resp |-> "none"]

Job(kind, p, arg) == [kind |-> kind, p |-> p, arg |-> arg]

\* promise.then(reaction): a reaction on a settled promise is queued at once
then(w, p, kind, arg) ==
    IF w.promises[p].state = "resolved"
    THEN [w EXCEPT !.micro = Append(@, Job(kind, p, arg))]
    ELSE [w EXCEPT !.promises[p].reactions = Append(@, Job(kind, p, arg))]

\* the resolve function of the promise made by requestDataframe
resolve(w, p, value) ==
    [w EXCEPT !.promises[p].state = "resolved",
              !.promises[p].value = value,
              !.promises[p].reactions = <<>>,
              !.micro = @ \o w.promises[p].reactions]

\* ------------------------------------------------------------------------
\* LRU cache (lru-cache), with the options of SQL_API
\* ------------------------------------------------------------------------
\* options.dispose: promise.then(dataframe => { free; removeDataframe })
dispose(w, p) ==
    then(w, p, "dispose", 0)

\* isStale(self, hit): Date.now() - hit.now > maxAge, kept as a flag of the
\* entry that the passing of time sets
isStale(w, hit) == hit.stale

RemoveAt(seq, i) == SubSeq(seq, 1, i - 1) \o SubSeq(seq, i + 1, Len(seq))

IndexOf(seq, key) ==
    IF \E i \in 1..Len(seq) : seq[i].key = key
    THEN CHOOSE i \in 1..Len(seq) : seq[i].key = key
    ELSE 0

\* del(self, node)
del(w, i) ==
    LET w1 == dispose(w, w.cache[i].promise)
    IN [w1 EXCEPT !.cache = RemoveAt(@, i)]

\* get(self, key, doUse = true): a stale hit is deleted and not returned
lruGet(w, key) ==
    LET i == IndexOf(w.cache, key)
    IN IF i = 0 THEN [w |-> w, hit |-> 0]
       ELSE IF isStale(w, w.cache[i])
       THEN [w |-> del(w, i), hit |-> 0]
       ELSE [w |-> [w EXCEPT !.cache = <<w.cache[i]>> \o RemoveAt(w.cache, i)],
             hit |-> w.cache[i].promise]

\* trim(self): deletes from the tail while the length exceeds max
RECURSIVE trim(_)
trim(w) ==
    IF Len(w.cache) > CacheMax THEN trim(del(w, Len(w.cache))) ELSE w

\* LRUCache.prototype.set
lruSet(w, key, p) ==
    LET i == IndexOf(w.cache, key)
    IN IF i # 0
       THEN LET w1 == dispose(w, w.cache[i].promise)
                w2 == [w1 EXCEPT !.cache[i].promise = p, !.cache[i].stale = FALSE]
            IN trim(lruGet(w2, key).w)
       ELSE trim([w EXCEPT !.cache = <<[key |-> key, promise |-> p, stale |-> FALSE]>> \o @])

\* LRUCache.prototype.reset
RECURSIVE disposeAll(_, _)
disposeAll(w, seq) ==
    IF seq = <<>> THEN w
    ELSE disposeAll(dispose(w, Head(seq).promise), Tail(seq))

lruReset(w) == [disposeAll(w, w.cache) EXCEPT !.cache = <<>>]

\* ------------------------------------------------------------------------
\* SQL_API provider
\* ------------------------------------------------------------------------
\* waits and done are history: the promises the callbacks of the batch were
\* given to, and whether the completion branch was entered
NoBatch == [completedTiles |-> <<>>, needToComplete |-> 0, waits |-> <<>>,
            done |-> FALSE]

NoSchemaReq == [state |-> "unused", schema |-> UndefinedSchema, reactions |-> <<>>]

\* requestDataframe: a new promise, the XMLHttpRequest is sent
requestDataframe(w, key) ==
    [w EXCEPT !.promises[w.nextPromise] =
                  [NoPromise EXCEPT !.state = "pending", !.key = key],
              !.nextPromise = @ + 1]

\* getDataframe(x, y, z, callback)
getDataframe(w, key, b) ==
    LET g == lruGet(w, key)
    IN IF g.hit # 0
       THEN then([g.w EXCEPT !.batches[b].waits = Append(@, g.hit)],
                 g.hit, "batch", b)
       ELSE LET p == g.w.nextPromise
                w1 == requestDataframe(g.w, key)
                w2 == lruSet(w1, key, p)
            IN then([w2 EXCEPT !.batches[b].waits = Append(@, p)], p, "batch", b)

RECURSIVE getDataframes(_, _, _)
getDataframes(w, keys, b) ==
    IF keys = <<>> THEN w
    ELSE getDataframes(getDataframe(w, Head(keys), b), Tail(keys), b)

\* getData(): one closure (completedTiles, needToComplete) per call
getData(w, keys) ==
    IF w.provStyle = 0 THEN w
    ELSE LET b == w.nextBatch
             w1 == [w EXCEPT !.batches[b] = [NoBatch EXCEPT !.needToComplete = Len(keys)],
                             !.nextBatch = b + 1]
         IN getDataframes(w1, keys, b)

\* xs.map(t => t.setStyle(s)), stopping at the first exception
RECURSIVE setStyleAll(_, _, _)
setStyleAll(w, seq, s) ==
    IF seq = <<>> THEN [w |-> w, ok |-> TRUE]
    ELSE LET r == setStyle(w, Head(seq), s)
         IN IF r.ok THEN setStyleAll(r.w, Tail(seq), s) ELSE r

\* the callback getData gives to getDataframe
batchCallback(w, b, value) ==
    LET w1 == IF value = 0
              THEN [w EXCEPT !.batches[b].needToComplete = @ - 1]
              ELSE [w EXCEPT !.batches[b].completedTiles = Append(@, value)]
        bt == w1.batches[b]
    IN IF Len(bt.completedTiles) = bt.needToComplete
       THEN LET w2 == [w1 EXCEPT !.batches[b].done = TRUE]
                r1 == setStyleAll(w2, w2.oldtiles, 0)
                r2 == setStyleAll(r1.w, bt.completedTiles, w2.provStyle)
            IN IF r2.ok THEN [r2.w EXCEPT !.oldtiles = bt.completedTiles] ELSE r2.w
       ELSE w1

\* the reaction installed by dispose
disposeCallback(w, p) ==
    LET d == w.promises[p].value
    IN IF d # 0 THEN removeDataframe(CallFree(w, d), d) ELSE w

\* the body of this.schema.then(...) in oReq.onload
onloadBody(w, p, q) ==
    IF w.promises[p].resp = "bad"
    THEN w  \* JSON.parse or the decoder throws inside the reaction
    ELSE IF w.promises[p].resp = "empty"
    THEN resolve(w, p, 0)
    ELSE LET w1 == [w EXCEPT !.dfs[p] = [NoDf EXCEPT !.state = "constructed",
                                                     !.schema = w.schemaReqs[q].schema]]
             r == setStyle(addDataframe(w1, p), p, w.provStyle)
         IN IF r.ok THEN resolve(r.w, p, p) ELSE r.w

RECURSIVE callFreeAll(_, _)
callFreeAll(w, seq) ==
    IF seq = <<>> THEN w ELSE callFreeAll(CallFree(w, Head(seq)), Tail(seq))

RECURSIVE removeAll(_, _)
removeAll(w, seq) ==
    IF seq = <<>> THEN w ELSE removeAll(removeDataframe(w, Head(seq)), Tail(seq))

\* setQueries(query, renderQueryMaker)
setQueries(w, q, schema) ==
    LET w1 == [w EXCEPT !.provStyle = 0,
                        !.schemaReqs[q] = [NoSchemaReq EXCEPT !.state = "pending",
                                                              !.schema = schema],
                        !.curSchemaReq = q]
        w2 == lruReset(w1)
        w3 == removeAll(callFreeAll(w2, w2.oldtiles), w2.oldtiles)
    IN [w3 EXCEPT !.oldtiles = <<>>]

\* getSchema(query) settles: the first reaction makes the Style, then the
\* promise stored in this.schema settles and its reactions are queued
schemaSettles(w, q) ==
    LET w1 == Style(w, w.schemaReqs[q].schema)
    IN [w1 EXCEPT !.provStyle = w.nextStyle,
                  !.schemaReqs[q].state = "resolved",
                  !.schemaReqs[q].reactions = <<>>,
                  !.micro = @ \o w.schemaReqs[q].reactions]

\* oReq.onload: this.schema.then(body) on the current schema promise
onload(w, p, resp) ==
    LET q == w.curSchemaReq
        w1 == [w EXCEPT !.promises[p].resp = resp]
    IN IF w.schemaReqs[q].state = "resolved"
       THEN [w1 EXCEPT !.micro = Append(@, Job("body", p, q))]
       ELSE [w1 EXCEPT !.schemaReqs[q].reactions = Append(@, Job("body", p, q))]

\* one microtask
runJob(w, j) ==
    CASE j.kind = "batch" -> batchCallback(w, j.arg, w.promises[j.p].value)
      [] j.kind = "dispose" -> disposeCallback(w, j.p)
      [] j.kind = "body" -> onloadBody(w, j.p, j.arg)

\* ------------------------------------------------------------------------
\* The Renderer constructor
\* ------------------------------------------------------------------------
\* const RTT_WIDTH = 1024
RTT_WIDTH == 1024

\* values of gl.getParameter(gl.MAX_RENDERBUFFER_SIZE)
RenderbufferSizes == {512, 1024, 2048}

\* values of gl.checkFramebufferStatus for the offscreen target
FramebufferStatuses == {"FRAMEBUFFER_COMPLETE", "FRAMEBUFFER_UNSUPPORTED"}

\* a machine on which everything the Renderer asks for is available
SupportedGl ==
    [context |-> TRUE, OES_texture_float |-> TRUE, EXT_blend_minmax |-> TRUE,
     MAX_RENDERBUFFER_SIZE |-> RTT_WIDTH, fbStatus |-> "FRAMEBUFFER_COMPLETE",
     renderer |-> "none"]

\* function Renderer(canvas): getContext, the two extensions and
\* MAX_RENDERBUFFER_SIZE are tested; auxFB is created with
\* gl.createFramebuffer() and its status is not read
Renderer(w) ==
    IF ~w.gl.context THEN [w EXCEPT !.gl.renderer = "threw"]
    ELSE IF ~w.gl.OES_texture_float THEN [w EXCEPT !.gl.renderer = "threw"]
    ELSE IF ~w.gl.EXT_blend_minmax THEN [w EXCEPT !.gl.renderer = "threw"]
    ELSE IF w.gl.MAX_RENDERBUFFER_SIZE < RTT_WIDTH
         THEN [w EXCEPT !.gl.renderer = "threw"]
    ELSE [w EXCEPT !.gl.renderer = "constructed", !.tiles = <<>>,
                   !.camera = [x |-> 0, y |-> 0, zoom |-> 1]]

\* ------------------------------------------------------------------------
\* Ramp of src/core/viz/expressions/ramp.js and its GPU texture
\* ------------------------------------------------------------------------
\* new Ramp(input, palette): _texCategories, _GLtexCategories and texture are
\* not assigned (0); textures is the state of every texture the Ramp has
\* created, in creation order; numCategories is input.numCategories
NewRamp ==
    [texCategories |-> 0, GLtexCategories |-> 0, texture |-> 0,
     textures |-> <<>>, numCategories |-> 1]

\* Ramp._compile(meta)
rampCompile(r) == [r EXCEPT !.texCategories = 0, !.GLtexCategories = 0]

\* Ramp._computeTextureIfNeeded: the pixels are recomputed for a new count
computeTextureIfNeeded(r) ==
    IF r.texCategories # r.numCategories
    THEN [r EXCEPT !.texCategories = r.numCategories]
    ELSE r

\* Ramp._computeGLTextureIfNeeded(gl): this.texture = gl.createTexture()
computeGLTextureIfNeeded(r) ==
    LET r1 == computeTextureIfNeeded(r)
    IN IF r1.GLtexCategories # r1.numCategories
       THEN [r1 EXCEPT !.GLtexCategories = r1.numCategories,
                       !.textures = Append(@, "live"),
                       !.texture = Len(r1.textures) + 1]
       ELSE r1

\* Ramp._preDraw(program, drawMetadata, gl) for a palette that is no sprite
rampPreDraw(r) == computeGLTextureIfNeeded(r)

\* Ramp._free(gl): if (this.texture) gl.deleteTexture(this.texture)
rampFree(r) ==
    IF r.texture # 0 THEN [r EXCEPT !.textures[r.texture] = "deleted"] ELSE r

\* ------------------------------------------------------------------------
\* Initial state: a Renderer and an SQL_API provider have been constructed
\* ------------------------------------------------------------------------
InitWorld ==
    [nodes |-> <<>>, nextNode |-> 1,
     styles |-> [s \in StyleIds |-> NoStyle], nextStyle |-> 1,
     nextProgram |-> 1, dfs |-> [d \in DfIds |-> NoDf], tiles |-> <<>>,
     pendingRAF |-> 0, lastFrame |-> -1, now |-> 0,
     camera |-> [x |-> 0, y |-> 0, zoom |-> 1], ops |-> 0, cache |-> <<>>,
     promises |-> [p \in PromiseIds |-> NoPromise], nextPromise |-> 1,
     micro |-> <<>>, oldtiles |-> <<>>, batches |-> [b \in BatchIds |-> NoBatch],
     nextBatch |-> 1, provStyle |-> 0,
     schemaReqs |-> [q \in QueryIds |-> NoSchemaReq], curSchemaReq |-> 0,
     binary_ops |-> jsepBinaryOps, doc |-> <<>>,
     gl |-> [SupportedGl EXCEPT !.renderer = "constructed"],
     ramp |-> NewRamp,
     lastOp |-> Op("init")]

Is(w) ==
    /\ nodes = w.nodes
    /\ nextNode = w.nextNode
    /\ styles = w.styles
    /\ nextStyle = w.nextStyle
    /\ nextProgram = w.nextProgram
    /\ dfs = w.dfs
    /\ tiles = w.tiles
    /\ pendingRAF = w.pendingRAF
    /\ lastFrame = w.lastFrame
    /\ now = w.now
    /\ camera = w.camera
    /\ ops = w.ops
    /\ cache = w.cache
    /\ promises = w.promises
    /\ nextPromise = w.nextPromise
    /\ micro = w.micro
    /\ oldtiles = w.oldtiles
    /\ batches = w.batches
    /\ nextBatch = w.nextBatch
    /\ provStyle = w.provStyle
    /\ schemaReqs = w.schemaReqs
    /\ curSchemaReq = w.curSchemaReq
    /\ binary_ops = w.binary_ops
    /\ doc = w.doc
    /\ gl = w.gl
    /\ ramp = w.ramp
    /\ lastOp = w.lastOp

Init == Is(InitWorld)

\* A Renderer for which the application has constructed two Styles, one per
\* schema, and a Dataframe of the first schema that is not yet added
Scene ==
    LET w1 == Style(InitWorld, SchemaOf(1))
        w2 == Style(w1, SchemaOf(2))
    IN [w2 EXCEPT !.dfs[1] = [NoDf EXCEPT !.state = "constructed",
                                          !.schema = SchemaOf(1)]]

InitData == Is(Scene)

\* A Renderer with one Style and one Dataframe of the same schema, after
\* renderer.addDataframe(dataframe) and dataframe.setStyle(style)
StyledScene ==
    LET w1 == Style(InitWorld, SchemaOf(1))
        w2 == [w1 EXCEPT !.dfs[1] = [NoDf EXCEPT !.state = "constructed",
                                                 !.schema = SchemaOf(1)]]
    IN setStyle(addDataframe(w2, 1), 1, 1).w

InitStyle == Is(StyledScene)

\* The same scene after style.setWidth(blend(blend(1, 2, animate(d)), 3, now()))
BlendScene ==
    LET w1 == Nested(StyledScene)
    IN setChannel(w1, 1, "width", w1.nextNode - 1).w

InitBlend == Is(BlendScene)

\* no task is running and the microtask queue is drained
Idle == micro = <<>>

\* ------------------------------------------------------------------------
\* Frame loop
\* ------------------------------------------------------------------------
\* a frame tick: the callbacks registered so far run with the timestamp of
\* the frame; callbacks they register belong to the next frame
Tick ==
    /\ Idle
    /\ pendingRAF > 0
    /\ now < MaxTime
    /\ LET t == now + 1
       IN Commit(runCallbacks([World EXCEPT !.now = t, !.pendingRAF = 0,
                                               !.lastOp = [Op("tick") EXCEPT
                                                              !.callbacks = pendingRAF]],
                                 t, pendingRAF))

\* ------------------------------------------------------------------------
\* Provider tasks
\* ------------------------------------------------------------------------
BatchChoices == {<<1>>, <<1, 2>>}

\* the calls of setQueries and getData made so far
Calls == curSchemaReq + (nextBatch - 1)

SetQueries ==
    /\ Idle
    /\ Calls < MaxCalls
    /\ Commit([setQueries(World, curSchemaReq + 1, SchemaOf(curSchemaReq + 1))
                  EXCEPT !.lastOp = Op("task")])

SchemaSettles ==
    /\ Idle
    /\ \E q \in QueryIds :
          /\ schemaReqs[q].state = "pending"
          /\ Commit([schemaSettles(World, q) EXCEPT !.lastOp = Op("task")])

GetData ==
    /\ Idle
    /\ provStyle # 0
    /\ Calls < MaxCalls
    /\ \E keys \in BatchChoices :
          LET w == getData(World, keys)
          IN /\ w.nextPromise <= MaxFetches + 1
             /\ Commit([w EXCEPT !.lastOp = Op("task")])

Onload ==
    /\ Idle
    /\ \E p \in PromiseIds, resp \in {"data", "empty", "bad"} :
          /\ promises[p].state = "pending"
          /\ promises[p].resp = "none"
          /\ Commit([onload(World, p, resp) EXCEPT !.lastOp = Op("task")])

\* the request fails on the network: oReq has no onerror handler, nothing runs
Onerror ==
    /\ Idle
    /\ \E p \in PromiseIds :
          /\ promises[p].state = "pending"
          /\ promises[p].resp = "none"
          /\ Commit([World EXCEPT !.promises[p].resp = "error",
                                  !.lastOp = Op("task")])

\* time passes: the entry at position i and the entries set before it get
\* older than maxAge
TimePasses ==
    /\ Idle
    /\ \E i \in 1..Len(cache) :
          /\ ~cache[i].stale
          /\ Commit([World EXCEPT
                       !.cache = [k \in 1..Len(cache) |->
                                     IF cache[k].promise <= cache[i].promise
                                     THEN [cache[k] EXCEPT !.stale = TRUE]
                                     ELSE cache[k]],
                       !.lastOp = Op("task")])

RunMicrotask ==
    /\ micro # <<>>
    /\ LET j == Head(micro)
       IN Commit([runJob([World EXCEPT !.micro = Tail(@)], j)
                     EXCEPT !.lastOp = Op("task")])

\* ------------------------------------------------------------------------
\* Calls of the public API on a Renderer, its Dataframes and its Styles
\* ------------------------------------------------------------------------
StyleBefore(name, s, ch) ==
    [Op(name) EXCEPT !.s = s, !.ch = ch,
                     !.rootsBefore = styles[s].root,
                     !.shadersBefore = styles[s].shader]

\* renderer.addDataframe(dataframe)
AddDataframeApi ==
    /\ Len(tiles) < MaxTiles
    /\ pendingRAF < MaxRAF
    /\ \E d \in DfIds :
          /\ dfs[d].state # "none"
          /\ dfs[d].allocs < MaxTiles
          /\ Commit([addDataframe(World, d) EXCEPT !.lastOp = [Op("addDataframe") EXCEPT !.d = d]])

\* dataframe.setStyle(style): the method exists once addDataframe has run
SetStyleApi ==
    /\ pendingRAF < MaxRAF
    /\ \E d \in DfIds, s \in {0} \cup StyleIds :
          /\ dfs[d].allocs > 0
          /\ s # 0 => styles[s].exists
          /\ LET r == setStyle(World, d, s)
             IN Commit([r.w EXCEPT !.lastOp = [Op("setStyle") EXCEPT
                                                  !.d = d, !.s = s, !.threw = ~r.ok,
                                                  !.styleBefore = dfs[d].style]])

\* dataframe.free()
FreeApi ==
    /\ \E d \in DfIds :
          /\ dfs[d].state # "none"
          /\ dfs[d].freeCalls < MaxFreeCalls
          /\ Commit([CallFree(World, d) EXCEPT !.lastOp = [Op("free") EXCEPT !.d = d]])

\* renderer.removeDataframe(dataframe)
RemoveDataframeApi ==
    /\ \E d \in DfIds :
          /\ \E i \in 1..Len(tiles) : tiles[i] = d
          /\ Commit([removeDataframe(World, d) EXCEPT
                        !.lastOp = [Op("removeDataframe") EXCEPT !.d = d]])

\* renderer.setCenter(x, y)
SetCenter ==
    /\ pendingRAF < MaxRAF
    /\ \E c \in {0, 1} :
          /\ <<camera.x, camera.y>> # <<c, c>>
          /\ Commit(RequestAnimationFrame(
                 [World EXCEPT !.camera.x = c, !.camera.y = c,
                               !.lastOp = Op("setCenter")]))

\* renderer.setZoom(zoom)
SetZoom ==
    /\ pendingRAF < MaxRAF
    /\ \E z \in {1, 2} :
          /\ camera.zoom # z
          /\ Commit(RequestAnimationFrame(
                 [World EXCEPT !.camera.zoom = z, !.lastOp = Op("setZoom")]))

Templates == {"float", "rgba", "now"}

\* style.setWidth(e) / setColor(e) / setStrokeColor(e) / setStrokeWidth(e)
\* with a newly built expression e
SetChannel ==
    /\ ops < MaxOps
    /\ nextNode + 1 <= MaxNodes
    /\ \E s \in StyleIds, ch \in Channels, tmpl \in Templates :
          /\ styles[s].exists
          /\ LET w1 == Build(World, tmpl)
                 r == setChannel(w1, s, ch, w1.nextNode - 1)
             IN Commit([r.w EXCEPT !.ops = @ + 1,
                                   !.lastOp = [StyleBefore("setChannel", s, ch)
                                                  EXCEPT !.threw = ~r.ok]])

\* the Blend that n.blendTo(final, ...) constructs after its Animate: the
\* node allocated second, or 0 when the Blend constructor throws
Blender(w, n, final) ==
    IF w.nodes[n].type = w.nodes[final].type THEN w.nextNode + 1 ELSE 0

\* style.getWidth().blendTo(e, duration) and the three siblings
BlendToRoot ==
    /\ ops < MaxOps
    /\ nextNode + 3 <= MaxNodes
    /\ \E s \in StyleIds, ch \in Channels, tmpl \in Templates, duration \in Durations :
          /\ styles[s].exists
          /\ LET w1 == Build(World, tmpl)
                 r == blendTo(w1, styles[s].root[ch], w1.nextNode - 1, duration)
             IN Commit([r.w EXCEPT !.ops = @ + 1,
                                   !.lastOp = [StyleBefore("blendTo", s, ch)
                                                  EXCEPT !.threw = ~r.ok,
                                                         !.n = styles[s].root[ch],
                                                         !.slot = "root",
                                                         !.blender = Blender(w1, styles[s].root[ch],
                                                                             w1.nextNode - 1)]])

\* the nodes of the trees of Style s, and those that are not a root
LiveNodes(s) == UNION {Reach(nodes, styles[s].root[ch]) : ch \in Channels}

Roots(s) == {styles[s].root[ch] : ch \in Channels}

\* the channel whose tree holds node n
ChannelOf(s, n) == CHOOSE ch \in Channels : n \in Reach(nodes, styles[s].root[ch])

\* the name under which parent p holds child n
SlotOf(ns, p, n) ==
    IF ns[p].a = n THEN "a" ELSE IF ns[p].b = n THEN "b"
    ELSE IF ns[p].mix = n THEN "mix" ELSE "none"

\* n.blendTo(e, duration) on a nested node n of a Style's tree
BlendToChild ==
    /\ ops < MaxOps
    /\ nextNode + 2 <= MaxNodes
    /\ \E s \in StyleIds, tmpl \in {"float", "rgba"}, duration \in Durations :
          /\ styles[s].exists
          /\ \E n \in LiveNodes(s) \ Roots(s) :
                LET w1 == Build(World, tmpl)
                    r == blendTo(w1, n, w1.nextNode - 1, duration)
                IN Commit([r.w EXCEPT !.ops = @ + 1,
                                      !.lastOp = [StyleBefore("blendTo", s, ChannelOf(s, n))
                                                     EXCEPT !.threw = ~r.ok,
                                                            !.n = n,
                                                            !.slot = SlotOf(nodes, nodes[n].parent, n),
                                                            !.blender = Blender(w1, n, w1.nextNode - 1)]])

Absent == [ch \in Channels |-> "absent"]

\* the dictionaries handed to Style.set
Dicts ==
    {Absent,
     [Absent EXCEPT !["color"] = "float"],
     [Absent EXCEPT !["strokeColor"] = "float"],
     [Absent EXCEPT !["width"] = "rgba"],
     [Absent EXCEPT !["strokeWidth"] = "now"]}

\* style.set(dict, duration)
StyleSet ==
    /\ ops < MaxOps
    /\ nextNode + 12 <= MaxNodes
    /\ \E s \in StyleIds, dict \in Dicts, duration \in Durations :
          /\ styles[s].exists
          /\ LET r == styleSet(World, s, dict, duration)
             IN Commit([r.w EXCEPT !.ops = @ + 1,
                                   !.lastOp = [StyleBefore("set", s, "none")
                                                  EXCEPT !.threw = ~r.ok]])

NextData ==
    \/ AddDataframeApi
    \/ SetStyleApi
    \/ FreeApi
    \/ RemoveDataframeApi
    \/ SetCenter
    \/ SetZoom
    \/ Tick

SpecData == InitData /\ [][NextData]_vars

NextStyle ==
    \/ SetChannel
    \/ BlendToRoot
    \/ StyleSet
    \/ SetCenter
    \/ SetZoom
    \/ Tick

SpecStyle == InitStyle /\ [][NextStyle]_vars

\* One Animate(duration), built at time 0 and not yet drawn
AnimateScene(duration) == Animate(InitWorld, duration)

InitAnimate == \E duration \in 1..MaxDuration : Is(AnimateScene(duration))

\* a draw of the Animate (node 1) after the clock advanced by dt: _preDraw,
\* then isAnimated(); the uniform and the answer are logged
AnimateDraw ==
    /\ Len(lastOp.mixes) < MaxDraws
    /\ \E dt \in 0..MaxStep :
          LET w1 == preDraw([World EXCEPT !.now = now + dt], 1)
              entry == [mix |-> AnimateUniform(w1.nodes[1]),
                        animated |-> isAnimated(w1.nodes, 1)]
          IN Commit([w1 EXCEPT !.lastOp = [Op("draw") EXCEPT
                                              !.mixes = Append(lastOp.mixes, entry)]])

NextAnimate == AnimateDraw

SpecAnimate == InitAnimate /\ [][NextAnimate]_vars

\* a document, not yet parsed
InitParse == \E d \in Docs : Is([InitWorld EXCEPT !.doc = d])

ParseStyle ==
    /\ ops < MaxParses
    /\ LET r == parseStyle(World, doc)
       IN Commit([r.w EXCEPT !.ops = @ + 1,
                             !.lastOp = [Op("parseStyle") EXCEPT
                                            !.threw = ~r.ok,
                                            !.tableBefore = binary_ops,
                                            !.style = r.style]])

\* parseStyleExpression on the expression of the document's first line
ParseStyleExpression ==
    /\ ops < MaxParses
    /\ LET r == parseStyleExpression(World, doc[1].expr)
       IN Commit([r.w EXCEPT !.ops = @ + 1,
                             !.lastOp = [Op("parseStyleExpression") EXCEPT
                                            !.threw = ~r.ok,
                                            !.tableBefore = binary_ops,
                                            !.value = r.value]])

NextParse ==
    \/ ParseStyle
    \/ ParseStyleExpression

SpecParse == InitParse /\ [][NextParse]_vars

\* a constructor call of the direct API
Construct ==
    /\ ops < MaxCtors
    /\ \E call \in ValidCalls \cup InvalidCalls :
          LET r == construct(World, call)
          IN Commit([r.w EXCEPT !.ops = @ + 1,
                                !.lastOp = [Op("construct") EXCEPT
                                               !.threw = ~r.ok,
                                               !.call = call,
                                               !.value = IF r.ok THEN NodeValue(r.id)
                                                         ELSE NoValue]])

NextCtor == Construct

SpecCtor == Init /\ [][NextCtor]_vars

\* checkSchemaMatch(schemaA, schemaB) on two schemas the caller holds
CheckSchemaMatch ==
    /\ ops = 0
    /\ \E A \in AllSchemas, B \in AllSchemas :
          Commit([World EXCEPT !.ops = 1,
                               !.lastOp = [Op("checkSchemaMatch") EXCEPT
                                              !.schemaA = A,
                                              !.schemaB = B,
                                              !.outcome = checkSchemaMatch(A, B),
                                              !.threw = checkSchemaMatch(A, B) # "ok"]])

NextSchema == CheckSchemaMatch

SpecSchema == Init /\ [][NextSchema]_vars

\* an expression graph over property references, not yet compiled; its root
\* is the node built last
InitTid == \E ls \in LeafSeqs : Is(BuildSum(InitWorld, ls, 1, 0))

\* compileShader(gl, root, createWidthShader) on the graph: the traversal
\* fills tid; a slot that is not a number leaves GLSL that does not compile
CompileGraph ==
    /\ ops < MaxCompiles
    /\ LET root == Len(nodes)
           table == propertyTIDs(nodes, root, <<>>)
           r == compileShader(World, root, "width")
       IN Commit([r.w EXCEPT !.ops = @ + 1,
                             !.lastOp = [Op("compileShader") EXCEPT
                                            !.n = root,
                                            !.threw = ~r.ok,
                                            !.program = r.program,
                                            !.tidBefore = lastOp.tid,
                                            !.tid = table]])

NextTid == CompileGraph

InitSlots == \E ls \in SlotSeqs : Is(BuildSum(InitWorld, ls, 1, 0))

SpecSlots == InitSlots /\ [][NextTid]_vars

Range(seq) == {seq[i] : i \in DOMAIN seq}

\* the property names that are canonical array indices, with their values
ArrayIndices == {<<"2", 2>>, <<"10", 10>>}

IsArrayIndex(name) == \E e \in ArrayIndices : e[1] = name

IndexValue(name) == (CHOOSE e \in ArrayIndices : e[1] = name)[2]

\* Object.keys(TID): the keys that are array indices in ascending numeric
\* order, then the other keys in the order they were added
ObjectKeys(tid) ==
    LET idx == SelectSeq(tid, IsArrayIndex)
        RECURSIVE ascending(_)
        ascending(names) ==
            IF names = {} THEN <<>>
            ELSE LET least == CHOOSE a \in names :
                                  \A b \in names : IndexValue(a) <= IndexValue(b)
                 IN <<least>> \o ascending(names \ {least})
    IN ascending(Range(idx)) \o SelectSeq(tid, LAMBDA a : ~IsArrayIndex(a))

\* graphs over an ordinary column and two columns named by numbers
BindLeaves == {"amount", "2", "10"}

BindSeqs == UNION {[1..k -> BindLeaves] : k \in 1..MaxLeaves}

InitBind == \E ls \in BindSeqs : Is(BuildSum(InitWorld, ls, 1, 0))

\* styleTile of pass 1 for the compiled channel: unit i gets the texture of
\* the i-th key of TID, tile.propertyTex[tile.propertyID[name]], and the
\* sampler property<i> is pointed at unit i; units keeps the column whose
\* texture each unit holds
StyleTileBind ==
    /\ lastOp.name = "compileShader"
    /\ ~lastOp.threw
    /\ Commit([World EXCEPT !.lastOp = [Op("styleTile") EXCEPT
                                          !.n = lastOp.n,
                                          !.program = lastOp.program,
                                          !.tid = lastOp.tid,
                                          !.units = ObjectKeys(lastOp.tid)]])

NextBind ==
    \/ CompileGraph
    \/ StyleTileBind

SpecBind == InitBind /\ [][NextBind]_vars

SpecTid == InitTid /\ [][NextTid]_vars

\* The calls that change what is shown, on the scene of one Style attached
\* to one Dataframe of the live list; the caller makes one call between two
\* frames
NextCalls ==
    \/ lastOp.name \in {"init", "tick"} /\ AddDataframeApi
    \/ lastOp.name \in {"init", "tick"} /\ SetStyleApi
    \/ lastOp.name \in {"init", "tick"} /\ SetCenter
    \/ lastOp.name \in {"init", "tick"} /\ SetZoom
    \/ lastOp.name \in {"init", "tick"} /\ SetChannel
    \/ lastOp.name \in {"init", "tick"} /\ StyleSet
    \/ Tick

SpecCalls == InitStyle /\ [][NextCalls]_vars

\* Style.set with targets that are not animated, on the Style of the
\* attached Dataframe
SetDicts == {Absent, [Absent EXCEPT !["width"] = "float", !["color"] = "rgba"]}

SetDurations == {1, 2}

SetTransition ==
    /\ ops < MaxSets
    /\ now <= MaxSetTime
    /\ \E dict \in SetDicts, duration \in SetDurations :
          LET s == dfs[tiles[1]].style
              r == styleSet(World, s, dict, duration)
          IN Commit([r.w EXCEPT
                        !.ops = @ + 1,
                        !.styles[s].target =
                            [ch \in Channels |-> r.w.nodes[r.w.styles[s].root[ch]].b],
                        !.lastOp = [StyleBefore("set", s, "none")
                                       EXCEPT !.threw = ~r.ok]])

\* the frames that are requested are served, until every transition that
\* can be set has run out
TickSettle ==
    /\ pendingRAF > 0
    /\ now < MaxSettleTime
    /\ LET t == now + 1
       IN Commit(runCallbacks([World EXCEPT !.now = t, !.pendingRAF = 0,
                                               !.lastOp = [Op("tick") EXCEPT
                                                              !.callbacks = pendingRAF]],
                                 t, pendingRAF))

NextSettle ==
    \/ SetTransition
    \/ TickSettle

SpecSettle == InitStyle /\ [][NextSettle]_vars

\* A page on some machine, before `new Renderer(canvas)`
InitGl ==
    \E c, f, m \in BOOLEAN, size \in RenderbufferSizes, st \in FramebufferStatuses :
        Is([InitWorld EXCEPT !.gl = [context |-> c, OES_texture_float |-> f,
                                     EXT_blend_minmax |-> m,
                                     MAX_RENDERBUFFER_SIZE |-> size,
                                     fbStatus |-> st, renderer |-> "none"]])

\* new Renderer(canvas)
NewRenderer ==
    /\ gl.renderer = "none"
    /\ Commit([Renderer(World) EXCEPT
                  !.lastOp = [Op("Renderer") EXCEPT
                                 !.threw = (Renderer(World).gl.renderer = "threw")]])

\* construction, then the camera calls and the frames of the Renderer that
\* was constructed
NextGl ==
    \/ NewRenderer
    \/ gl.renderer = "constructed" /\ SetCenter
    \/ gl.renderer = "constructed" /\ SetZoom
    \/ gl.renderer = "constructed" /\ Tick

SpecGl == InitGl /\ [][NextGl]_vars

\* The tiles of the zoom levels up to MaxZoom
TileCoords ==
    {t \in [x : 0..(Pow2(MaxZoom) - 1), y : 0..(Pow2(MaxZoom) - 1), z : 0..MaxZoom] :
        t.x < Pow2(t.z) /\ t.y < Pow2(t.z)}

InitRsys == \E t \in TileCoords : Is([InitWorld EXCEPT !.lastOp.tile = t])

\* the provider places the Dataframe of a tile with getRsysFromTile; tileRsys
\* is the function of the rsys API for the same tile
RsysOfTile ==
    /\ lastOp.name = "init"
    /\ LET t == lastOp.tile
       IN Commit([World EXCEPT !.lastOp = [Op("rsys") EXCEPT
                                             !.tile = t,
                                             !.rsys = getRsysFromTile(t.x, t.y, t.z),
                                             !.tileRsys = tileRsys(t.x, t.y, t.z)]])

NextRsys == RsysOfTile

SpecRsys == InitRsys /\ [][NextRsys]_vars

\* input.schemaType.categoryNames of the category column
categoryNames == <<"a", "b">>

NumCategories == Len(categoryNames)

\* the values of one byte of a palette color, as hexToRgb gives them
Bytes == {0, 128, 255}

PaletteColors == [r : Bytes, g : Bytes, b : {0, 255}]

\* ramp($cat, [colorA, colorB]) over a category column of NumCategories
\* names, and a feature of each category id
InitRamp ==
    \E colorA, colorB \in PaletteColors, id \in 0..(NumCategories - 1) :
        Is([InitWorld EXCEPT !.lastOp.palette = <<colorA, colorB>>,
                             !.lastOp.cat = id])

\* pass 1 evaluates the channel for the feature
RampDraw ==
    /\ lastOp.name = "init"
    /\ Commit([World EXCEPT
                  !.lastOp = [Op("ramp") EXCEPT
                                !.palette = lastOp.palette,
                                !.cat = lastOp.cat,
                                !.color = rampInline(lastOp.palette,
                                                     rampKeys(NumCategories),
                                                     lastOp.cat)]])

NextRamp == RampDraw

SpecRamp == InitRamp /\ [][NextRamp]_vars

\* the values of a numeric property, in the order of the features
Samples == UNION {[1..k -> 0..MaxValue] : k \in 1..MaxSample}

Classifiers == {"quantiles", "eqIntervals", "standardDev"}

\* a classifier over a numeric property, bound to its metadata
InitClassifier ==
    \E c \in Classifiers, sample \in Samples, n \in 2..MaxBuckets, std \in 0..MaxStd :
        /\ c # "standardDev" => std = 0
        /\ Is([InitWorld EXCEPT !.lastOp.classified =
                   [classifier |-> c, sample |-> sample, std |-> std, n |-> n]])

GetBreakpointList ==
    /\ lastOp.name = "init"
    /\ LET k == lastOp.classified
       IN Commit([World EXCEPT
                     !.lastOp = [Op("getBreakpointList") EXCEPT
                                    !.classified = k,
                                    !.breakpoints =
                                        getBreakpointList(k.classifier, k.sample,
                                                          k.std, k.n)]])

NextClassifier == GetBreakpointList

SpecClassifier == InitClassifier /\ [][NextClassifier]_vars

NextBlend ==
    \/ BlendToRoot
    \/ BlendToChild
    \/ SetCenter
    \/ Tick

SpecBlend == InitBlend /\ [][NextBlend]_vars

Next ==
    \/ SetQueries
    \/ SchemaSettles
    \/ GetData
    \/ Onload
    \/ Onerror
    \/ TimePasses
    \/ RunMicrotask
    \/ Tick

Spec == Init /\ [][Next]_vars

\* ------------------------------------------------------------------------
\* Properties
\* ------------------------------------------------------------------------
InTiles(d) == \E i \in 1..Len(tiles) : tiles[i] = d

UsedPromises == {p \in PromiseIds : promises[p].state # "unused"}

\* does the expression tree of a channel of style s hold only uniform owners
\* whose locations were resolved against the channel's stored program
Bound(s, ch) ==
    /\ styles[s].shader[ch] # 0
    /\ \A n \in Reach(nodes, styles[s].root[ch]) :
          nodes[n].kind \in UniformKinds => nodes[n].loc = styles[s].shader[ch]

\* C1: in the provider/renderer system no frame draws a Dataframe whose
\* free() has run: the Dataframes the last frame tick drew, and the styled
\* Dataframes of the live list whenever a frame tick can start, own their
\* textures and buffers.
C1_NoFrameUsesFreedDataframe ==
    /\ lastOp.name = "tick" =>
          \A i \in 1..Len(lastOp.drawn) : dfs[lastOp.drawn[i]].propertyTex = "array"
    /\ Idle =>
          \A i \in 1..Len(tiles) :
              dfs[tiles[i]].style # 0 => dfs[tiles[i]].propertyTex = "array"

\* a frame has drawn live Dataframes after a styled Dataframe was freed
C1_Witness ==
    /\ lastOp.name = "tick"
    /\ lastOp.draws = 1
    /\ Len(lastOp.drawn) > 0
    /\ \E d \in DfIds : dfs[d].released = 1 /\ dfs[d].style # 0 /\ ~InTiles(d)

\* C2: for every Dataframe (never added, added, freed) a second free() changes
\* nothing the first one left, and the delete block has run at most once per
\* set of resources addDataframe created.
C2_FreeIdempotent ==
    \A d \in DfIds :
        dfs[d].state # "none" =>
            /\ free(free(dfs[d])) = free(dfs[d])
            /\ dfs[d].released <= dfs[d].allocs

\* free() has just been called a second time on a Dataframe that owned
\* resources, and they were released once
C2_Witness ==
    \E d \in DfIds :
        /\ dfs[d].freeCalls = 2
        /\ dfs[d].allocs = 1
        /\ dfs[d].released = 1
        /\ lastOp.name = "free"

\* C3: when a key has been evicted and a newer fetch exists for it, the
\* evicted entry's Dataframe has had free() invoked exactly once and is out
\* of the live list (an entry that resolved empty has no Dataframe).
C3_EvictionFreesBeforeReuse ==
    \A p \in UsedPromises, q \in UsedPromises :
        (p < q /\ promises[p].key = promises[q].key) =>
            /\ promises[p].state = "resolved"
            /\ promises[p].value # 0 =>
                  /\ dfs[promises[p].value].freeCalls = 1
                  /\ ~InTiles(promises[p].value)

\* C4: at most one fetch per tile key is in flight.
C4_OneFetchPerKey ==
    \A k \in Keys :
        Cardinality({p \in PromiseIds : /\ promises[p].state = "pending"
                                        /\ promises[p].resp = "none"
                                        /\ promises[p].key = k}) <= 1

\* C5: whatever number of callbacks a frame tick runs, the two-pass draw is
\* done at most once in the tick.
C5_OneDrawPerTick == lastOp.name = "tick" => lastOp.draws <= 1

\* a tick ran several callbacks and drew once
C5_Witness ==
    /\ lastOp.name = "tick"
    /\ lastOp.callbacks >= 2
    /\ lastOp.draws = 1

\* C6: after a frame is drawn another frame is scheduled exactly when some
\* channel root of the Style of some drawn Dataframe is animated.
C6_RearmIffAnyChannelAnimated ==
    (lastOp.name = "tick" /\ lastOp.draws = 1) =>
        (lastOp.rearmed <=>
            \E i \in 1..Len(lastOp.drawn), ch \in Channels :
                isAnimated(nodes, styles[dfs[lastOp.drawn[i]].style].root[ch]))

\* C7: for every Style attached to a Dataframe of the live list, each of the
\* four channels has a compiled program and the uniform owners under its
\* root are resolved against that program.
C7_EveryRootBound ==
    \A i \in 1..Len(tiles) :
        dfs[tiles[i]].style # 0 =>
            \A ch \in Channels : Bound(dfs[tiles[i]].style, ch)

\* C8: a channel setter that failed to compile leaves the channel's root and
\* program as they were before the call.
C8_FailedSetterKeepsPrevious ==
    (lastOp.name = "setChannel" /\ lastOp.threw) =>
        /\ styles[lastOp.s].root[lastOp.ch] = lastOp.rootsBefore[lastOp.ch]
        /\ styles[lastOp.s].shader[lastOp.ch] = lastOp.shadersBefore[lastOp.ch]

\* C9: a Style.set that failed leaves the four roots and the four programs
\* as they were before the call.
C9_SetAllOrNothing ==
    (lastOp.name = "set" /\ lastOp.threw) =>
        /\ styles[lastOp.s].root = lastOp.rootsBefore
        /\ styles[lastOp.s].shader = lastOp.shadersBefore

\* C10: the Style attached to a Dataframe is absent or of a matching schema,
\* and a setStyle that raised left the Style attached before the call.
C10_AttachedStyleMatches ==
    /\ \A d \in DfIds :
          dfs[d].style # 0 =>
              checkSchemaMatch(styles[dfs[d].style].schema, dfs[d].schema) = "ok"
    /\ (lastOp.name = "setStyle" /\ lastOp.threw) =>
          dfs[lastOp.d].style = lastOp.styleBefore


\* is node n a Blend whose mix is an Animate that, recomputed at time t, is
\* no longer animated
ExhaustedAt(ns, n, t) ==
    /\ ns[n].kind = "blend"
    /\ ns[ns[n].mix].kind = "animate"
    /\ LET m == ns[ns[n].mix]
       IN ~AnimateIsAnimated([m EXCEPT !.mixSet = TRUE, !.mixNum = t - m.aTime])

\* the node that stands in n's place once every exhausted Blend at or below
\* n's position has given way to its b
RECURSIVE Collapsed(_, _, _)
Collapsed(ns, n, t) ==
    IF ExhaustedAt(ns, n, t) THEN Collapsed(ns, ns[n].b, t) ELSE n

\* C11: a frame that draws a Style replaces every Blend of its trees whose
\* Animate mix has run past its duration by the Blend's b: each root slot of
\* the Style and each child slot of each surviving node holds afterwards what
\* it held before with the exhausted Blends replaced by their b, and the
\* node now in the slot names the slot's owner as its parent.
C11_ExhaustedBlendCollapses ==
    [][(lastOp'.name = "tick" /\ lastOp'.draws > 0) =>
          \A i \in 1..Len(lastOp'.drawn) :
              LET s == dfs[lastOp'.drawn[i]].style
              IN /\ \A ch \in Channels :
                        LET r == Collapsed(nodes, styles[s].root[ch], now')
                        IN /\ styles'[s].root[ch] = r
                           /\ nodes'[r].parent = 0 - s
                 /\ \A p \in LiveNodes(s) :
                        ~ExhaustedAt(nodes, p, now') =>
                            \A k \in 1..Len(Children(nodes, p)) :
                                LET c == Collapsed(nodes, Children(nodes, p)[k], now')
                                IN /\ Children(nodes', p)[k] = c
                                   /\ nodes'[c].parent = p]_vars

\* a frame has collapsed a Blend held by a Style slot and a Blend held by
\* another expression
C11_Witness ==
    /\ lastOp.name = "tick"
    /\ lastOp.draws = 1
    /\ \E n \in 1..Len(nodes) :
          /\ nodes[n].kind = "blend"
          /\ nodes[n].parent < 0
          /\ nodes[nodes[n].mix].kind = "animate"
          /\ ~AnimateIsAnimated(nodes[nodes[n].mix])
          /\ \E ch \in Channels : styles[0 - nodes[n].parent].root[ch] = nodes[n].b
          /\ nodes[nodes[n].b].parent = nodes[n].parent
    /\ \E n \in 1..Len(nodes) :
          /\ nodes[n].kind = "blend"
          /\ nodes[n].parent > 0
          /\ nodes[nodes[n].mix].kind = "animate"
          /\ ~AnimateIsAnimated(nodes[nodes[n].mix])
          /\ nodes[nodes[n].parent].a = nodes[n].b
          /\ nodes[nodes[n].b].parent = nodes[n].parent


\* C12: over the draws of one Animate at non-decreasing times the delivered
\* mix lies in [0,1] and never decreases, isAnimated() is true at each draw
\* where mix < 1 and false at each draw where mix = 1.
C12_AnimateRamp ==
    lastOp.name = "draw" =>
        \A i \in 1..Len(lastOp.mixes) :
            LET e == lastOp.mixes[i]
                num == e.mix[1]
                den == e.mix[2]
            IN /\ den > 0
               /\ 0 <= num /\ num <= den
               /\ i > 1 => lastOp.mixes[i - 1].mix[1] * den <= num * lastOp.mixes[i - 1].mix[2]
               /\ num < den => e.animated
               /\ num = den => ~e.animated


\* C13: after n.blendTo(target, duration) on a live node n, root or nested,
\* whose Blend was constructed, the slot that held n holds the Blend of n and
\* the target, the Blend carries the channel's notification callback, the
\* program of the channel that contains n was recompiled and the three
\* other programs were not.
C13_BlendToRecompilesOneChannel ==
    (lastOp.name = "blendTo" /\ lastOp.blender # 0) =>
        LET blender == lastOp.blender
            s == lastOp.s
        IN /\ nodes[blender].kind = "blend"
           /\ nodes[blender].a = lastOp.n
           /\ IF lastOp.slot = "root"
              THEN /\ styles[s].root[lastOp.ch] = blender
                   /\ nodes[blender].parent = 0 - s
              ELSE /\ nodes[blender].parent > 0
                   /\ SlotOf(nodes, nodes[blender].parent, blender) = lastOp.slot
           /\ nodes[blender].notify = [s |-> s, ch |-> lastOp.ch]
           /\ styles[s].shader[lastOp.ch] # lastOp.shadersBefore[lastOp.ch]
           /\ \A ch \in Channels \ {lastOp.ch} :
                 styles[s].shader[ch] = lastOp.shadersBefore[ch]


\* C14: after a call of parseStyle or parseStyleExpression, returned or
\* thrown, jsep's binary-operator table, the built-in "^" included, is the
\* table from before the call.
C14_ParserRestoresOperators ==
    lastOp.name \in {"parseStyle", "parseStyleExpression"} =>
        binary_ops = lastOp.tableBefore


\* C15: parseStyle of a document of n >= 1 valid lines `key: expression`
\* returns a style with exactly the document's keys, each mapped to an
\* expression node with a declared type; the line `key: 3` gives a constant
\* float node and `key: rgba(...)` a constant color node, neither animated.
C15_ParseStyleYieldsTypedNodes ==
    (lastOp.name = "parseStyle" /\ \A i \in 1..Len(doc) : doc[i].expr # "bad") =>
        /\ ~lastOp.threw
        /\ DOMAIN lastOp.style = {doc[i].key : i \in 1..Len(doc)}
        /\ \A k \in DOMAIN lastOp.style :
              /\ lastOp.style[k].isNode
              /\ nodes[lastOp.style[k].id].type \in {"float", "color"}
        /\ \A i \in 1..Len(doc) :
              (\A j \in (i + 1)..Len(doc) : doc[j].key # doc[i].key) =>
                  LET v == lastOp.style[doc[i].key]
                  IN /\ doc[i].expr = "lit" =>
                            /\ nodes[v.id].kind = "float"
                            /\ ~isAnimated(nodes, v.id)
                     /\ doc[i].expr = "rgba" =>
                            /\ nodes[v.id].kind = "rgba"
                            /\ nodes[v.id].type = "color"
                            /\ ~isAnimated(nodes, v.id)


\* C16: a construction that references a property absent from the Schema or
\* feeds a node an input of a type it does not accept raises an error and
\* returns no node.
C16_InvalidConstructionThrows ==
    (lastOp.name = "construct" /\ lastOp.call \in InvalidCalls) =>
        /\ lastOp.threw
        /\ ~lastOp.value.isNode

\* C17: every node a construction returned, and every node built for it,
\* has its declared type set to float or color.
C17_EveryNodeTyped ==
    lastOp.name = "construct" =>
        /\ lastOp.value.isNode => nodes[lastOp.value.id].type \in {"float", "color"}
        /\ ~lastOp.threw =>
              \A n \in 1..Len(nodes) : nodes[n].type \in {"float", "color"}


\* C18: checkSchemaMatch(S, S) does not throw for any Schema S, the Schema
\* with no properties included, and checkSchemaMatch does not throw when
\* either argument is undefined.
C18_SelfAndUndefinedNeverThrow ==
    (/\ lastOp.name = "checkSchemaMatch"
     /\ \/ lastOp.schemaA = lastOp.schemaB
        \/ ~lastOp.schemaA.defined
        \/ ~lastOp.schemaB.defined) =>
        ~lastOp.threw

\* C19: for two defined schemas checkSchemaMatch(A, B) throws exactly when
\* some property present in both has different types in the two, and
\* checkSchemaMatch(B, A) throws exactly when checkSchemaMatch(A, B) does.
C19_MismatchOnSharedPropertiesOnly ==
    (/\ lastOp.name = "checkSchemaMatch"
     /\ lastOp.schemaA.defined
     /\ lastOp.schemaB.defined) =>
        LET A == lastOp.schemaA
            B == lastOp.schemaB
        IN /\ lastOp.threw <=>
                  \E name \in SchemaKeys(A) \cap SchemaKeys(B) :
                      SchemaLookup(A, name) # SchemaLookup(B, name)
           /\ lastOp.threw <=> (checkSchemaMatch(B, A) # "ok")


\* the names of the Property nodes under n, in the order a traversal that
\* takes children in childrenNames order meets them
RECURSIVE Referenced(_, _)
RECURSIVE ReferencedSeq(_, _)
Referenced(ns, n) ==
    IF ns[n].kind = "property" THEN <<ns[n].name>>
    ELSE ReferencedSeq(ns, Children(ns, n))
ReferencedSeq(ns, seq) ==
    IF seq = <<>> THEN <<>>
    ELSE Referenced(ns, Head(seq)) \o ReferencedSeq(ns, Tail(seq))

\* a sequence without its repetitions, first occurrences kept
RECURSIVE FirstSeen(_)
FirstSeen(seq) ==
    IF seq = <<>> THEN <<>>
    ELSE LET init == FirstSeen(SubSeq(seq, 1, Len(seq) - 1))
             x == seq[Len(seq)]
         IN IF \E i \in 1..Len(init) : init[i] = x THEN init ELSE Append(init, x)

\* C20: a compilation of a graph, started with an empty property table,
\* leaves a table that gives the N distinct properties the graph references
\* the slots 0..N-1 in the order the traversal first meets them, and a
\* second compilation of the same graph leaves the same table.
C20_PropertySlotsDeterministic ==
    lastOp.name = "compileShader" =>
        /\ lastOp.tid = FirstSeen(Referenced(nodes, lastOp.n))
        /\ ops > 1 => lastOp.tid = lastOp.tidBefore


\* C21: a compilation that yields a program has given slots to at most
\* NUM_TEXTURE_LOCATIONS properties, each slot being one of the program's
\* resolved texture locations 0..NUM_TEXTURE_LOCATIONS-1; a graph that
\* references more properties yields an error and no program.
C21_AtMostFourPropertySlots ==
    lastOp.name = "compileShader" =>
        LET refs == {Referenced(nodes, lastOp.n)[i] : i \in 1..Len(Referenced(nodes, lastOp.n))}
        IN /\ ~lastOp.threw =>
                 /\ lastOp.program # 0
                 /\ Len(lastOp.tid) <= NUM_TEXTURE_LOCATIONS
                 /\ \A name \in refs :
                       \E i \in 1..NUM_TEXTURE_LOCATIONS : lastOp.tid[i] = name
           /\ Cardinality(refs) > NUM_TEXTURE_LOCATIONS =>
                 /\ lastOp.threw
                 /\ lastOp.program = 0
                 /\ \A n \in 1..Len(nodes) : nodes[n].loc = 0

\* a graph over five columns was handed to the compiler
C21_Witness ==
    /\ lastOp.name = "compileShader"
    /\ lastOp.threw
    /\ Len(lastOp.tid) > NUM_TEXTURE_LOCATIONS


\* C22: setCenter, setZoom, the four channel setters, Style.set,
\* Dataframe.setStyle and addDataframe run no draw pass: the call leaves the
\* frame stamp and the expression state of the last draw as they were, and a
\* call that returns has registered one more frame callback; drawing is
\* done by frame ticks only.
C22_CallsOnlyRequestFrames ==
    [][lastOp'.name \in {"setCenter", "setZoom", "setChannel", "set", "setStyle",
                         "addDataframe"} =>
          /\ lastFrame' = lastFrame
          /\ lastOp'.draws = 0
          /\ lastOp'.drawn = <<>>
          /\ ~lastOp'.threw => pendingRAF' > pendingRAF]_vars

\* a second frame, requested after the first one was drawn, has run its
\* callback and drawn the styled Dataframe
C22_Witness ==
    /\ lastOp.name = "tick"
    /\ lastOp.callbacks > 0
    /\ lastOp.draws = 1
    /\ Len(lastOp.drawn) > 0
    /\ lastFrame = now
    /\ now > 1

\* C23: a Renderer exists only on a machine that offers the context, both
\* extensions, a render target of RTT_WIDTH and a complete offscreen target.
C23_ConstructionFailsFast ==
    gl.renderer = "constructed" =>
        /\ gl.context
        /\ gl.OES_texture_float
        /\ gl.EXT_blend_minmax
        /\ gl.MAX_RENDERBUFFER_SIZE >= RTT_WIDTH
        /\ gl.fbStatus = "FRAMEBUFFER_COMPLETE"

\* the fetch or the decoding of the tile of promise p has failed
Failed(p) == promises[p].resp \in {"bad", "error"}

\* what the callbacks of batch b still wait for is only failed tiles
OnlyFailedLeft(b) ==
    /\ micro = <<>>
    /\ \A i \in 1..Len(batches[b].waits) :
          LET p == batches[b].waits[i]
          IN \/ Failed(p)
             \/ /\ promises[p].state = "resolved"
                /\ promises[p].value # 0
                /\ InTiles(promises[p].value)
                /\ dfs[promises[p].value].style = provStyle

\* C24: a batch of getData of which some tiles failed, and all the others
\* were added to the Renderer with the current Style, has reached its
\* completion step.
C24_FailedTileDoesNotBlock ==
    \A b \in BatchIds :
        (b < nextBatch /\ OnlyFailedLeft(b)
           /\ \E i, j \in 1..Len(batches[b].waits) :
                 Failed(batches[b].waits[i]) /\ ~Failed(batches[b].waits[j]))
            => batches[b].done

\* C25: for every tile, getRsysFromTile and tileRsys give scale 1/2^z and
\* center (2(x+0.5)/2^z - 1, 1 - 2(y+0.5)/2^z), and the tile to the right
\* has its center exactly 2*scale further in x and at the same y.
C25_TileRsys ==
    lastOp.name = "rsys" =>
        LET t == lastOp.tile
            expected == [scale |-> Frac(1, Pow2(t.z)),
                         center |-> [x |-> Frac(2 * t.x + 1 - Pow2(t.z), Pow2(t.z)),
                                     y |-> Frac(Pow2(t.z) - 2 * t.y - 1, Pow2(t.z))]]
            right == getRsysFromTile(t.x + 1, t.y, t.z)
        IN /\ lastOp.rsys = expected
           /\ lastOp.tileRsys = expected
           /\ t.x + 1 < Pow2(t.z) =>
                 /\ FSub(right.center.x, lastOp.rsys.center.x)
                      = FMul(Num(2), lastOp.rsys.scale)
                 /\ right.center.y = lastOp.rsys.center.y
                 /\ tileRsys(t.x + 1, t.y, t.z).center = right.center

\* tile (0,0,1): scale 1/2, center (-1/2, 1/2), one unit left of tile (1,0,1)
C25_Witness ==
    /\ lastOp.name = "rsys"
    /\ lastOp.tile = [x |-> 0, y |-> 0, z |-> 1]
    /\ lastOp.rsys.scale = Frac(1, 2)
    /\ lastOp.rsys.center = [x |-> Frac(-1, 2), y |-> Frac(1, 2)]
    /\ FSub(getRsysFromTile(1, 0, 1).center.x, lastOp.rsys.center.x) = Num(1)

\* C26: a ramp over a category of cardinality 2 with a two-color palette
\* gives exactly the first color for category id 0 and exactly the second
\* color for category id 1.
C26_RampCategoryEndpoints ==
    lastOp.name = "ramp" =>
        \A c \in {"r", "g", "b"} :
            lastOp.color[c] = Num(lastOp.palette[lastOp.cat + 1][c])

Settled(s) ==
    \/ styles[s].target = ZeroCh
    \/ \A ch \in Channels : styles[s].root[ch] = styles[s].target[ch]

\* every Animate that was made has run out at the current time
AllExhausted ==
    \A n \in 1..Len(nodes) :
        nodes[n].kind = "animate" => now - nodes[n].aTime > nodes[n].bTime - nodes[n].aTime

C29_RemovedBeforeFree ==
    \A d \in DfIds : ~dfs[d].freedLive

\* C30: in pass 1 the unit that the program reads as slot tid[p] holds the
\* value texture of p itself, for every property p of the table, whatever
\* the names and the order of first reference.
C30_SlotsBoundToOwnTexture ==
    lastOp.name = "styleTile" =>
        \A k \in 1..Len(lastOp.tid) : lastOp.units[k] = lastOp.tid[k]

InitFold ==
    \E i \in 1..Len(BinaryOperators), a, b \in 0..MaxOperand :
        Is([InitWorld EXCEPT !.lastOp.fold =
                [NoFold EXCEPT !.op = BinaryOperators[i], !.a = a, !.b = b]])

\* parseNode on a BinaryExpression of two literals: floatMul(left, right), ...
NewBinaryOperation ==
    /\ lastOp.name = "init"
    /\ Commit(BinaryOperationOfNumbers([World EXCEPT !.lastOp = Op("fold")],
                              lastOp.fold.op, lastOp.fold.a, lastOp.fold.b))

NextFold == NewBinaryOperation

SpecFold == InitFold /\ [][NextFold]_vars

\* C32: a binary operation on two numeric literals folds to a constant float
\* that is the operator applied to them (2^5 is 32, 7 % 2 is 1), and the
\* constant equals what the shader expression computes for the same
\* operands, wherever the shader's result is defined.
C32_LiteralsFold ==
    (lastOp.name = "fold" /\ lastOp.fold.shader.finite) =>
        /\ ~lastOp.fold.threw
        /\ lastOp.fold.value = lastOp.fold.shader
        /\ (lastOp.fold.op = "^" /\ lastOp.fold.a = 2 /\ lastOp.fold.b = 5)
              => lastOp.fold.value = Finite(Num(32))
        /\ (lastOp.fold.op = "%" /\ lastOp.fold.a = 7 /\ lastOp.fold.b = 2)
              => lastOp.fold.value = Finite(Num(1))

\* the cardinalities of the category column
Cardinalities == {c + e : c \in {0, BYTE_MAX, TOP_WIDTH}, e \in 1..MaxExcess}

\* the bucket counts of top($cat, buckets)
BucketCounts ==
    {c + e : c \in {0, BYTE_MAX - 1, TOP_WIDTH - 1}, e \in 0..MaxExcess}

\* top($cat, buckets) over a column of k categories, and a feature of one of
\* the most or least frequent categories
InitTop ==
    \E k \in Cardinalities, buckets \in BucketCounts, e \in 1..MaxExcess :
        \E cat \in {e - 1, k - e} \cap 0..(k - 1) :
            Is([InitWorld EXCEPT !.lastOp.top =
                    [NoTop EXCEPT !.k = k, !.requested = buckets, !.cat = cat]])

\* the shader of the channel is compiled and evaluated for the feature
TopDraw ==
    /\ lastOp.name = "init"
    /\ LET t == lastOp.top
           buckets == clampBuckets(t.requested, t.k)
           pixels == topPixels(categoryIDs(t.k), buckets)
       IN Commit([World EXCEPT
                     !.lastOp = [Op("top") EXCEPT
                                   !.top = [t EXCEPT
                                              !.buckets = buckets,
                                              !.pixels = pixels,
                                              !.value = topInline(pixels, t.cat)]]])

NextTop == TopDraw

SpecTop == InitTop /\ [][NextTop]_vars

\* C33: for top(property, buckets) over k categories the effective bucket
\* count is min(buckets, k); a feature of one of the buckets-1 most frequent
\* categories gets a value of its own, different from that of every other
\* category, and a feature of any remaining category (also one whose id
\* lies beyond the texture's width) gets the one 'others' value.
C33_TopBuckets ==
    lastOp.name = "top" =>
        LET t == lastOp.top
            own == t.buckets - 1
        IN /\ t.buckets = IF t.requested < t.k THEN t.requested ELSE t.k
           /\ t.cat < own =>
                 \A c \in 0..(t.k - 1) :
                     c # t.cat => topInline(t.pixels, c) # t.value
           /\ t.cat >= own =>
                 \A c \in 0..(t.k - 1) :
                     c >= own => topInline(t.pixels, c) = t.value

\* C34: removeDataframe(d) takes d off the live list and frees d's GPU
\* resources; every other Dataframe stays on the list, in its order, with
\* its resources as they were.
C34_RemoveFrees ==
    [][lastOp'.name = "removeDataframe" =>
          LET d == lastOp'.d
          IN /\ \A i \in 1..Len(tiles') : tiles'[i] # d
             /\ dfs'[d].tex # "live"
             /\ dfs'[d].propertyTex # "array"
             /\ tiles' = Without(tiles, d)
             /\ \A o \in DfIds \ {d} : dfs'[o] = dfs[o]]_vars

\* C35: after any sequence of addDataframe and removeDataframe calls every
\* Dataframe is on the live list at most once (so no frame draws it twice)
\* and the textures and buffers allocated for it are the ones it refers to:
\* no allocation is left behind by a later one without a free().
C35_LiveListHasNoDuplicates ==
    /\ \A i, j \in 1..Len(tiles) : i # j => tiles[i] # tiles[j]
    /\ \A i, j \in 1..Len(lastOp.pass2) : i # j => lastOp.pass2[i] # lastOp.pass2[j]
    /\ \A d \in DfIds : dfs[d].allocs - dfs[d].released <= 1

\* C36: when an older getData batch completes after a newer one has, the
\* completion takes the Style from none of the newer batch's Dataframes,
\* and the live Dataframes left styled are Dataframes of the newest batch.
C36_LateBatchKeepsNewerViewport ==
    [][\A b, b2 \in BatchIds :
          (/\ b < b2
           /\ b2 = nextBatch - 1
           /\ batches[b2].done
           /\ ~batches[b].done
           /\ batches'[b].done)
          => /\ \A i \in 1..Len(batches[b2].completedTiles) :
                   LET d == batches[b2].completedTiles[i]
                   IN dfs'[d].style = dfs[d].style
             /\ \A d \in DfIds :
                   ((\E i \in 1..Len(tiles') : tiles'[i] = d) /\ dfs'[d].style # 0)
                   => \E i \in 1..Len(batches[b2].completedTiles) :
                         batches[b2].completedTiles[i] = d]_vars

\* C37: at every frame tick every Dataframe of the live list is the value
\* of the promise of a current tile-cache entry, and the live list is no
\* longer than the cache's capacity.
C37_LiveDataframesAreCached ==
    lastOp.name = "tick" =>
        /\ \A i \in 1..Len(tiles) :
              \E j \in 1..Len(cache) :
                  /\ promises[cache[j].promise].state = "resolved"
                  /\ promises[cache[j].promise].value = tiles[i]
        /\ Len(tiles) <= CacheMax

\* style.setStrokeColor(style.getColor()) and the like: a setter is given the
\* expression that is the root of another channel of the same type
SetChannelToRoot ==
    /\ ops < MaxOps
    /\ \E s \in StyleIds, ch \in Channels, other \in Channels :
          /\ styles[s].exists
          /\ other # ch
          /\ IsColorChannel(other) = IsColorChannel(ch)
          /\ LET r == setChannel(World, s, ch, styles[s].root[other])
             IN Commit([r.w EXCEPT !.ops = @ + 1,
                                   !.lastOp = [StyleBefore("setChannel", s, ch)
                                                  EXCEPT !.threw = ~r.ok,
                                                         !.n = styles[s].root[other]]])

NextShare ==
    \/ SetChannel
    \/ SetChannelToRoot
    \/ BlendToRoot
    \/ SetCenter
    \/ Tick

SpecShare == InitStyle /\ [][NextShare]_vars

\* C38: after construction, the four setters, blendTo and the collapse of a
\* Blend, every node reachable from a root of a Style has as parent the node
\* whose child slot holds it, every root has the Style as parent, and the
\* notify of a root recompiles the channel the root occupies.
C38_ParentsAndNotifyFollowSlots ==
    \A s \in StyleIds :
        styles[s].exists =>
            \A ch \in Channels :
                LET r == styles[s].root[ch]
                IN /\ nodes[r].parent = 0 - s
                   /\ nodes[r].notify = [s |-> s, ch |-> ch]
                   /\ \A n \in Reach(nodes, r) :
                         \A i \in 1..Len(Children(nodes, n)) :
                             nodes[Children(nodes, n)[i]].parent = n

\* the viz is compiled against the metadata
RampCompile ==
    Commit([World EXCEPT !.ramp = rampCompile(ramp), !.lastOp = Op("rampCompile")])

\* a draw, with the category count the input has at that time
RampPreDraw ==
    \E n \in 1..MaxRampCategories :
        LET r == rampPreDraw([ramp EXCEPT !.numCategories = n])
        IN /\ Len(r.textures) <= MaxTextures
           /\ Commit([World EXCEPT !.ramp = r, !.lastOp = Op("rampPreDraw")])

\* the viz is disposed
RampFree ==
    Commit([World EXCEPT !.ramp = rampFree(ramp), !.lastOp = Op("rampFree")])

NextRampTexture ==
    \/ RampCompile
    \/ RampPreDraw
    \/ RampFree

SpecRampTexture == Init /\ [][NextRampTexture]_vars

\* C39: across any sequence of _compile, _preDraw and _free the Ramp has at
\* most one texture that is not deleted, and after _free every texture it
\* created is deleted.
C39_RampOwnsOneTexture ==
    /\ Cardinality({t \in 1..Len(ramp.textures) : ramp.textures[t] = "live"}) <= 1
    /\ lastOp.name = "rampFree" =>
          \A t \in 1..Len(ramp.textures) : ramp.textures[t] = "deleted"

\* the template URLs, one per subdomain
TemplatePool == <<"a", "b", "c", "d">>

\* the zoom of the requested tiles
Zooms == {1}

RequestedTiles ==
    [x : (0 - MaxCoord)..MaxCoord, y : (0 - MaxCoord)..MaxCoord, z : Zooms]

\* new TileClient(templateURLs) with n templates, and the tiles of a request
InitClient ==
    \E n \in 1..MaxTemplates, k \in 0..MaxRequest :
        \E requested \in [1..k -> RequestedTiles] :
            /\ n <= Len(TemplatePool)
            /\ Is([InitWorld EXCEPT !.lastOp.client =
                       [NoClient EXCEPT !.templateURLs = SubSeq(TemplatePool, 1, n),
                                        !.requested = requested]])

\* client.getTiles(tiles)
GetTiles ==
    /\ lastOp.name = "init"
    /\ Commit([World EXCEPT
                  !.lastOp = [Op("getTiles") EXCEPT
                                !.client = [lastOp.client EXCEPT
                                              !.entries = getTiles(lastOp.client.templateURLs,
                                                                   lastOp.client.requested)]]])

NextClient == GetTiles

SpecClient == InitClient /\ [][NextClient]_vars

\* C40: for every tile, negative x or y included, and every non-empty
\* template list of length n the client takes the template at index
\* |x+y| mod n, which is an index of the list; equal tiles get equal URLs;
\* getTiles returns one entry per requested tile, in the order of the request.
C40_TemplateOfTile ==
    lastOp.name = "getTiles" =>
        LET c == lastOp.client
            n == Len(c.templateURLs)
        IN /\ Len(c.entries) = Len(c.requested)
           /\ \A i \in 1..Len(c.entries) :
                 LET t == c.requested[i]
                     e == c.entries[i]
                     sum == IF t.x + t.y < 0 THEN 0 - (t.x + t.y) ELSE t.x + t.y
                 IN /\ e.xyz = t
                    /\ ~e.response.threw
                    /\ \E k \in 0..(n - 1) :
                          /\ (sum - k) % n = 0
                          /\ e.response.template = c.templateURLs[k + 1]
                    /\ <<e.response.x, e.response.y, e.response.z>> = <<t.x, t.y, t.z>>
           /\ \A i, j \in 1..Len(c.entries) :
                 c.requested[i] = c.requested[j]
                     => c.entries[i].response = c.entries[j].response

\* a request of two tiles, one of them with a negative coordinate sum that
\* the template count does not divide
C40_Witness ==
    /\ lastOp.name = "getTiles"
    /\ Len(lastOp.client.entries) = 2
    /\ Len(lastOp.client.templateURLs) = 2
    /\ lastOp.client.requested[1].x + lastOp.client.requested[1].y = 0 - 1
    /\ lastOp.client.entries[1].response.template = "b"
    /\ lastOp.client.entries[2].response.template = "a"

====
